---- MODULE Spec2Model ----
(***************************************************************************)
(* Model of the PyRCM port layer (b3j0f/rcm/binding/port.py) and of the    *)
(* proxy selection policies (b3j0f/rcm/io/policy/base.py).                 *)
(*                                                                         *)
(* Reading of the source.  port.py names a few attributes that the class   *)
(* never defines (self.inf, self.sup, self.ifs, self._respolicy, the       *)
(* keyword rountine=, resource[name] in ProxySet.__init__) and slices the  *)
(* resources mapping.  They are read as the attributes they denote         *)
(* (self._inf, self._sup, self.itfs, self._resultpolicy, routine=,         *)
(* resource.proxy, a slice of the ordered bindings).  Everything else,     *)
(* control flow included, is modelled as written.                          *)
(*                                                                         *)
(* The classes Component, Resource, Interface, Policy and PolicyResultSet  *)
(* are defined in modules outside these two files; what the model needs of *)
(* them follows the specification of the core: an ordered name -> value    *)
(* mapping, back-references kept per resource, a policy that answers the   *)
(* parameter it is called with.                                            *)
(*                                                                         *)
(* Specifications: Spec (one port, plain resources), SpecCascade (a port   *)
(* bound as a resource of a dependent port), SpecChain (a chain of three   *)
(* ports), SpecCycle (two ports that may be bound on each other),          *)
(* SpecDispatch (a non-multiple port with policies), SpecPublish (a        *)
(* regeneration, statement by statement, along a reader of port.proxy),    *)
(* SpecPolicy (a policy instance called with candidate sets), SpecRepeat   *)
(* (a fresh policy instance called repeatedly with one value), SpecFrame   *)
(* (two ports, with a log of the regenerations each operation runs),       *)
(* SpecProxySet (the ProxySet objects a multiple port builds, and the      *)
(* reverse lookup on them), SpecCall (a call through the proxy of a        *)
(* non-multiple port, one step per stage and per backend invocation),      *)
(* SpecImpl (the ImplController of controller/impl.py), SpecRound (such a  *)
(* call with a RoundaboutPolicy as selection, and calls of the policy      *)
(* object), SpecMapping (policies configured by method name), SpecError    *)
(* (policies and backends that raise) and SpecKept (a caller that keeps a  *)
(* proxy while the port is changed).                                       *)
(*                                                                         *)
(* ProxySet is read as it is meant: the tuple holds the proxies handed to  *)
(* tuple.__init__ and get_proxy(elt=proxy) wraps the resource's proxy; a   *)
(* proxy is known by its identity, the n-th object a ProxySet created.     *)
(***************************************************************************)
EXTENDS Integers, Sequences, FiniteSets, TLC

VARIABLES
    itfs,        \* Port.itfs: port -> sequence of required interfaces
    multiple,    \* Port._multiple
    inf,         \* Port._inf
    sup,         \* Port._sup
    children,    \* the port's bindings: port -> sequence of [name, val]
    cache,       \* Port._proxy
    bound_on,    \* Resource._bound_on: resource -> set of <<component, name>>
    selectpolicy,  \* Port._selectpolicy
    execpolicy,    \* Port._execpolicy
    resultpolicy,  \* Port._resultpolicy
    raised,      \* exception that ended the last operation ("none" if it returned)
    ret,         \* value returned by the last operation
    invoked,     \* the plain resources whose method m the last operation ran, in order
    renewed,     \* the ports whose _renew_proxy the last operation ran, in order
    policy,      \* the policy instance under test: class, inf, sup, random, index
    param,       \* the value last handed to the policy
    presult,     \* the value the policy returned
    praised,     \* exception raised by the last policy call
    calls,       \* number of calls made to the policy instance, when they are counted
    heap,        \* the proxy objects stored so far (Port._proxy refers to one of them)
    thread,      \* per thread: position in Port.proxy / Port._renew_proxy, and locals
    asked,       \* the call just made (get_resource_name, renew_impl): its arguments
    controller   \* the ImplController: _cls and _impl

vars == <<itfs, multiple, inf, sup, children, cache, bound_on,
          selectpolicy, execpolicy, resultpolicy, raised, ret, invoked, renewed,
          policy, param, presult, praised, calls, heap, thread, asked, controller>>
portvars == <<itfs, multiple, inf, sup, children, cache, bound_on,
              selectpolicy, execpolicy, resultpolicy, raised, ret, invoked, renewed>>
policyvars == <<policy, param, presult, praised, calls>>
threadvars == <<heap, thread, asked>>
implvars == <<controller>>

(***************************************************************************)
(* Bounds and universe                                                     *)
(***************************************************************************)
RecursionLimit == 10     \* depth at which the interpreter raises RecursionError
maxsize == 2147483647    \* sys.maxsize

Ports == {"P", "D", "E"}         \* D may bind P, and E may bind D, as a resource
Pair == {"P", "D"}
Leafs == {"X", "Y"}              \* plain resources
Resources == Leafs \cup Ports
Others == {"one"}                \* a bound value that is not a Resource
None == "None"
Names == {"a", "b"}
Interfaces == {"IA", "IB", "IC"}
default_multiple == TRUE         \* Port(): the flag of a port built without multiple=

\* interfaces of the plain resources (fixed at creation)
LeafItfs == [X |-> <<"IB">>, Y |-> <<"IB", "IC">>]
\* what the shared method m returns on each plain resource
Backend == [X |-> 1, Y |-> 2]
\* interface lists a port is given
ItfChoices == {<<"IA">>, <<"IC">>}
\* cardinality bounds a port is constructed with: the defaults, and (1, 2)
Cardinalities == {[inf |-> 0, sup |-> maxsize], [inf |-> 1, sup |-> 2]}
\* values offered to a port for binding
Bindable(p) == Leafs \cup Others
\* with a dependent port: D binds P, P binds X (bindings stay acyclic)
CascadeBindable(p) == IF p = "D" THEN {"P"} ELSE {"X"}
CascadeNames(p) == IF p = "D" THEN Names ELSE {"a"}
\* with a chain of dependent ports: E binds D, D binds P, P binds X
ChainBindable(p) == IF p = "E" THEN {"D"} ELSE IF p = "D" THEN {"P"} ELSE {"X"}
\* with ports bound on each other: P binds D or X, D binds P
CycleBindable(p) == IF p = "D" THEN {"P"} ELSE {"D", "X"}

\* IB and IC extend IA; every interface is a sub-interface of itself
is_sub_itf(a, b) == a = b \/ (a \in {"IB", "IC"} /\ b = "IA")

IsResource(v) == v \in Resources
IsPort(v) == v \in Ports

Min(a, b) == IF a < b THEN a ELSE b

(***************************************************************************)
(* Proxy values                                                            *)
(***************************************************************************)
NoneProxy == [kind |-> "None"]
LeafProxy(r) == [kind |-> "Leaf", res |-> r]

(***************************************************************************)
(* The world the operations transform                                      *)
(***************************************************************************)
World ==
    [itfs |-> itfs, multiple |-> multiple, children |-> children,
     cache |-> cache, bound_on |-> bound_on, raised |-> "none",
     val |-> NoneProxy, began |-> <<>>, made |-> <<>>]

\* _renew_proxy is entered: noted in the log of the operation
Begin(w, p) == [w EXCEPT !.began = Append(@, p)]

\* self._proxy = px: the store, noted in the log of the operation
Store(w, p, px) ==
    [w EXCEPT !.cache[p] = px, !.made = Append(@, [port |-> p, val |-> px])]

Raise(w, e) == [w EXCEPT !.raised = e]
Return(w, v) == [w EXCEPT !.val = v]

ItfsOf(w, v) == IF v \in Ports THEN w.itfs[v] ELSE LeafItfs[v]

(***************************************************************************)
(* Component: ordered name -> value mapping                                *)
(***************************************************************************)
HasName(s, n) == \E i \in 1..Len(s) : s[i].name = n
Lookup(s, n) ==
    IF HasName(s, n) THEN s[CHOOSE i \in 1..Len(s) : s[i].name = n].val ELSE None
Assign(s, n, v) ==
    IF HasName(s, n)
    THEN [i \in 1..Len(s) |-> IF s[i].name = n THEN [name |-> n, val |-> v] ELSE s[i]]
    ELSE Append(s, [name |-> n, val |-> v])
Delete(s, n) == SelectSeq(s, LAMBDA e : e.name # n)

\* Port.resources: the bindings whose value is a Resource
resources(w, p) == SelectSeq(w.children[p], LAMBDA e : IsResource(e.val))

Max(a, b) == IF a > b THEN a ELSE b

\* Python slice s[i:j]: a negative index counts from the end
SliceIndex(k, n) == IF k < 0 THEN Max(n + k, 0) ELSE Min(k, n)
Slice(s, i, j) ==
    LET lo == SliceIndex(i, Len(s))
        hi == SliceIndex(j, Len(s))
    IN IF lo >= hi THEN <<>> ELSE SubSeq(s, lo + 1, hi)

(***************************************************************************)
(* Port.check_res                                                          *)
(***************************************************************************)
RECURSIVE check_inner(_, _, _)
check_inner(resource_itf, self_itfs, result) ==
    IF self_itfs = <<>> THEN result
    ELSE LET r == is_sub_itf(resource_itf, Head(self_itfs))
         IN IF ~r THEN r     \* break: leaves the inner loop only
            ELSE check_inner(resource_itf, Tail(self_itfs), r)

RECURSIVE check_outer(_, _, _)
check_outer(resource_itfs, self_itfs, result) ==
    IF resource_itfs = <<>> THEN result
    ELSE check_outer(Tail(resource_itfs), self_itfs,
                     check_inner(Head(resource_itfs), self_itfs, result))

check_res(w, p, resource) == check_outer(ItfsOf(w, resource), w.itfs[p], TRUE)

(***************************************************************************)
(* Resource back-references                                                *)
(***************************************************************************)
remove_resource(w, p, name, resource) ==
    [w EXCEPT !.bound_on[resource] = @ \ {<<p, name>>}]
add_resource(w, p, name, resource) ==
    [w EXCEPT !.bound_on[resource] = @ \cup {<<p, name>>}]

RECURSIVE SetToSeq(_)
SetToSeq(S) ==
    IF S = {} THEN <<>>
    ELSE LET x == CHOOSE y \in S : TRUE IN <<x>> \o SetToSeq(S \ {x})

(***************************************************************************)
(* Port.proxy, Port._renew_proxy, Port.set_port                            *)
(***************************************************************************)
RECURSIVE proxy(_, _, _)
RECURSIVE collect(_, _, _, _)
RECURSIVE collect_nested(_, _, _, _)
RECURSIVE renew_proxy(_, _, _)
RECURSIVE propagate(_, _, _, _)
RECURSIVE set_port(_, _, _, _, _)

\* resource.proxy: a plain resource has its own proxy; a port's is cached
proxy(w, v, d) ==
    IF v \in Leafs THEN Return(w, LeafProxy(v))
    ELSE IF d > RecursionLimit THEN Raise(w, "RecursionError")
    ELSE LET w1 == IF w.cache[v] = NoneProxy THEN renew_proxy(w, v, d + 1) ELSE w
         IN IF w1.raised # "none" THEN w1 ELSE Return(w1, w1.cache[v])

\* variant: the proxy of every binding is one entry, a ProxySet included
collect_nested(w, res, acc, d) ==
    IF res = <<>> THEN Return(w, acc)
    ELSE LET e == Head(res)
             w1 == proxy(w, e.val, d)
         IN IF w1.raised # "none" THEN w1
            ELSE collect_nested(w1, Tail(res),
                                acc \o <<[proxy |-> w1.val, name |-> e.name]>>, d)

\* the proxies of the bindings res, a ProxySet flattened one level;
\* each entry keeps the name of the binding it comes from
collect(w, res, acc, d) ==
    IF res = <<>> THEN Return(w, acc)
    ELSE LET e == Head(res)
             w1 == proxy(w, e.val, d)
             px == w1.val
             new == IF px.kind = "ProxySet"
                    THEN [i \in 1..Len(px.elems) |->
                            [proxy |-> px.elems[i].proxy, name |-> e.name]]
                    ELSE <<[proxy |-> px, name |-> e.name]>>
         IN IF w1.raised # "none" THEN w1
            ELSE collect(w1, Tail(res), acc \o new, d)

ProxySet(p, elems) == [kind |-> "ProxySet", port |-> p, elems |-> elems]
\* the object whose methods dispatch to proxies; names: where each came from
Aggregate(p, elems) ==
    [kind |-> "Proxy", port |-> p,
     proxies |-> [i \in 1..Len(elems) |-> elems[i].proxy],
     names |-> [i \in 1..Len(elems) |-> elems[i].name]]

\* variant: the bound-on ports are re-assigned before the new proxy is stored
renew_proxy_propagates_first(w0, p, d) ==
    IF d > RecursionLimit THEN Raise(w0, "RecursionError")
    ELSE
    LET w == Begin(w0, p)
        res == Slice(resources(w, p), inf[p], sup[p])
        isMultiple == w.multiple[p]
        w1 == IF ~isMultiple /\ res = <<>> THEN Return(w, <<>>) ELSE collect(w, res, <<>>, d)
        px == IF isMultiple THEN ProxySet(p, w1.val)
              ELSE IF res = <<>> THEN NoneProxy ELSE Aggregate(p, w1.val)
    IN IF w1.raised # "none" THEN w1
       ELSE LET w2 == propagate(w1, p, SetToSeq(w1.bound_on[p]), d)
            IN IF w2.raised # "none" THEN w2 ELSE Store(w2, p, px)

\* variant: without the test of emptiness of the non-multiple branch
renew_proxy_always_builds(w0, p, d) ==
    IF d > RecursionLimit THEN Raise(w0, "RecursionError")
    ELSE
    LET w == Begin(w0, p)
        res == Slice(resources(w, p), inf[p], sup[p])
        w1 == collect(w, res, <<>>, d)
        px == IF w.multiple[p] THEN ProxySet(p, w1.val) ELSE Aggregate(p, w1.val)
    IN IF w1.raised # "none" THEN w1
       ELSE LET w2 == Store(w1, p, px)
            IN propagate(w2, p, SetToSeq(w2.bound_on[p]), d)

renew_proxy(w0, p, d) ==
    IF d > RecursionLimit THEN Raise(w0, "RecursionError")
    ELSE
    LET w == Begin(w0, p)
        res == Slice(resources(w, p), inf[p], sup[p])
        isMultiple == w.multiple[p]
    IN IF ~isMultiple /\ res = <<>>
       THEN propagate(Store(w, p, NoneProxy), p, SetToSeq(w.bound_on[p]), d)
       ELSE LET w1 == collect(w, res, <<>>, d)
                px == IF isMultiple THEN ProxySet(p, w1.val) ELSE Aggregate(p, w1.val)
            IN IF w1.raised # "none" THEN w1
               ELSE LET w2 == Store(w1, p, px)
                    IN propagate(w2, p, SetToSeq(w2.bound_on[p]), d)

\* component[bound_name] = self for every port this port is bound on
propagate(w, p, pairs, d) ==
    IF pairs = <<>> THEN w
    ELSE LET component == Head(pairs)[1]
             bound_name == Head(pairs)[2]
             w1 == IF IsPort(component)
                   THEN set_port(w, component, p, bound_name, d + 1)
                   ELSE w
         IN IF w1.raised # "none" THEN w1
            ELSE propagate(w1, p, Tail(pairs), d)

\* Component.set_port: bind port under name, answer (name, previous binding)
component_set_port(w, p, port, name) ==
    Return([w EXCEPT !.children[p] = Assign(@, name, port)],
           [kind |-> "pair", name |-> name, old |-> Lookup(w.children[p], name)])

\* variant: the proxy is renewed whatever the old and the new value are
set_port_always_renews(w, p, port, name, d) ==
    IF d > RecursionLimit THEN Raise(w, "RecursionError")
    ELSE IF IsResource(port) /\ ~check_res(w, p, port)
    THEN Raise(w, "PortError")
    ELSE LET w1 == component_set_port(w, p, port, name)
             result == w1.val
             old_port == result.old
             w2 == IF IsResource(old_port)
                   THEN remove_resource(w1, p, name, old_port) ELSE w1
             w3 == IF IsResource(port)
                   THEN add_resource(w2, p, name, port) ELSE w2
             w4 == renew_proxy(w3, p, d + 1)
         IN IF w4.raised # "none" THEN w4 ELSE Return(w4, result)

\* variant: answers the new binding in place of the previous one
set_port_returns_new(w, p, port, name, d) ==
    IF d > RecursionLimit THEN Raise(w, "RecursionError")
    ELSE IF IsResource(port) /\ ~check_res(w, p, port)
    THEN Raise(w, "PortError")
    ELSE LET w1 == component_set_port(w, p, port, name)
             old_port == w1.val.old
             w2 == IF IsResource(old_port)
                   THEN remove_resource(w1, p, name, old_port) ELSE w1
             w3 == IF IsResource(port)
                   THEN add_resource(w2, p, name, port) ELSE w2
             w4 == IF IsResource(old_port) \/ IsResource(port)
                   THEN renew_proxy(w3, p, d + 1) ELSE w3
         IN IF w4.raised # "none" THEN w4
            ELSE Return(w4, [kind |-> "pair", name |-> name, old |-> port])

set_port(w, p, port, name, d) ==
    IF d > RecursionLimit THEN Raise(w, "RecursionError")
    ELSE IF IsResource(port) /\ ~check_res(w, p, port)
    THEN Raise(w, "PortError")
    ELSE LET w1 == component_set_port(w, p, port, name)
             result == w1.val
             old_port == result.old
             w2 == IF IsResource(old_port)
                   THEN remove_resource(w1, p, name, old_port) ELSE w1
             w3 == IF IsResource(port)
                   THEN add_resource(w2, p, name, port) ELSE w2
             change_of_resources == IsResource(old_port) \/ IsResource(port)
             w4 == IF change_of_resources THEN renew_proxy(w3, p, d + 1) ELSE w3
         IN IF w4.raised # "none" THEN w4 ELSE Return(w4, result)

(***************************************************************************)
(* Values handed to and returned by policies and method calls              *)
(***************************************************************************)
NoneValue == [kind |-> "None"]
IntValue(n) == [kind |-> "int", v |-> n]
ListValue(items) == [kind |-> "list", items |-> items]
PolicyResultSet(items) == [kind |-> "PolicyResultSet", items |-> items]
\* variant: every list passes for a tagged set
IsPolicyResultSet_or_list(x) == x.kind \in {"PolicyResultSet", "list"}

IsPolicyResultSet(x) == x.kind = "PolicyResultSet"

\* no policy (None), and a policy instance of a class
NoPolicy == [cls |-> "None", inf |-> 0, sup |-> maxsize, random |-> FALSE, index |-> 0]
Instance(cls) == [NoPolicy EXCEPT !.cls = cls]

Returned(pol, v) == [policy |-> pol, raised |-> "none", val |-> v]
Raised(pol, e) == [policy |-> pol, raised |-> e, val |-> NoneValue]

\* Policy.__call__: answers the parameter the policy is called with
policy_call(x) == x

\* all orders random.shuffle can leave a list in
shuffle(s) ==
    {[i \in 1..Len(s) |-> s[f[i]]] :
        f \in {g \in [1..Len(s) -> 1..Len(s)] :
                  \A i, j \in 1..Len(s) : g[i] = g[j] => i = j}}

(***************************************************************************)
(* CountPolicy.__call__: the set of outcomes of one call                   *)
(***************************************************************************)
\* variant: the comparison with inf is not strict
count_check_not_strict(pol, len_proxies) == len_proxies <= pol.inf

count_check(pol, len_proxies) == len_proxies < pol.inf

\* variant: both slices include their upper bound
count_select_inclusive(pol, items) ==
    IF pol.random
    THEN {Slice(shuffled, 0, pol.sup - pol.inf + 1) : shuffled \in shuffle(items)}
    ELSE {Slice(items, pol.inf, pol.sup + 1)}

count_select(pol, items) ==
    IF pol.random
    THEN {Slice(shuffled, 0, pol.sup - pol.inf) : shuffled \in shuffle(items)}
    ELSE {Slice(items, pol.inf, pol.sup)}

CountPolicy(pol, x) ==
    LET result == policy_call(x)
    IN IF IsPolicyResultSet(result)
       THEN IF count_check(pol, Len(result.items))
            THEN {Raised(pol, "CountError")}
            ELSE {Returned(pol, PolicyResultSet(r)) : r \in count_select(pol, result.items)}
       ELSE {Returned(pol, result)}

(***************************************************************************)
(* FirstPolicy, AllPolicy, RandomPolicy and RoundaboutPolicy: the set of   *)
(* outcomes of one call                                                    *)
(***************************************************************************)
\* variant: the last element is chosen
FirstPolicy_last(pol, x) ==
    LET result == policy_call(x)
    IN IF IsPolicyResultSet(result)
       THEN {Returned(pol, IF result.items # <<>> THEN result.items[Len(result.items)]
                           ELSE NoneValue)}
       ELSE {Returned(pol, result)}

FirstPolicy(pol, x) ==
    LET result == policy_call(x)
    IN IF IsPolicyResultSet(result)
       THEN {Returned(pol, IF result.items # <<>> THEN result.items[1] ELSE NoneValue)}
       ELSE {Returned(pol, result)}

\* AllPolicy overrides nothing of Policy
AllPolicy(pol, x) == {Returned(pol, policy_call(x))}

\* variant: random.choice without the test of emptiness
RandomPolicy_unguarded(pol, x) ==
    LET result == policy_call(x)
    IN IF IsPolicyResultSet(result)
       THEN IF result.items # <<>>
            THEN {Returned(pol, result.items[i]) : i \in 1..Len(result.items)}
            ELSE {Raised(pol, "IndexError")}
       ELSE {Returned(pol, result)}

RandomPolicy(pol, x) ==
    LET result == policy_call(x)
    IN IF IsPolicyResultSet(result)
       THEN IF result.items # <<>>
            THEN {Returned(pol, result.items[i]) : i \in 1..Len(result.items)}
            ELSE {Returned(pol, NoneValue)}
       ELSE {Returned(pol, result)}

\* variant: the element is read at the advanced index
RoundaboutPolicy_reads_after(pol, x) ==
    LET result == policy_call(x)
    IN IF IsPolicyResultSet(result)
       THEN IF result.items # <<>>
            THEN LET advanced == [pol EXCEPT !.index = (pol.index + 1) % Len(result.items)]
                 IN {Returned(advanced, result.items[advanced.index + 1])}
            ELSE {Returned(pol, NoneValue)}
       ELSE {Returned(pol, result)}

\* variant: the index advances on an empty set as well
RoundaboutPolicy_advances_on_empty(pol, x) ==
    LET result == policy_call(x)
    IN IF IsPolicyResultSet(result)
       THEN IF result.items # <<>>
            THEN LET index == pol.index
                     advanced == [pol EXCEPT !.index = (pol.index + 1) % Len(result.items)]
                 IN IF index < Len(result.items)
                    THEN {Returned(advanced, result.items[index + 1])}
                    ELSE {Raised(advanced, "IndexError")}
            ELSE {Returned([pol EXCEPT !.index = pol.index + 1], NoneValue)}
       ELSE {Returned(pol, result)}

\* index = self.index; self.index = (self.index + 1) % len(result); result[index]
RoundaboutPolicy(pol, x) ==
    LET result == policy_call(x)
    IN IF IsPolicyResultSet(result)
       THEN IF result.items # <<>>
            THEN LET index == pol.index
                     advanced == [pol EXCEPT !.index = (pol.index + 1) % Len(result.items)]
                 IN IF index < Len(result.items)
                    THEN {Returned(advanced, result.items[index + 1])}
                    ELSE {Raised(advanced, "IndexError")}
            ELSE {Returned(pol, NoneValue)}
       ELSE {Returned(pol, result)}

\* a policy instance applied to a value, by class
apply_policy(pol, x) ==
    CASE pol.cls = "CountPolicy" -> CountPolicy(pol, x)
      [] pol.cls = "FirstPolicy" -> FirstPolicy(pol, x)
      [] pol.cls = "AllPolicy" -> AllPolicy(pol, x)
      [] pol.cls = "RandomPolicy" -> RandomPolicy(pol, x)
      [] pol.cls = "RoundaboutPolicy" -> RoundaboutPolicy(pol, x)
      [] OTHER -> {Returned(pol, policy_call(x))}

(***************************************************************************)
(* Port._method_proxy: a call of the shared method m through a proxy       *)
(***************************************************************************)
\* the outcome of a call: exception or value, and the backends that ran
Ok(v) == [raised |-> "none", val |-> v, log |-> <<>>]
Err(e) == [raised |-> e, val |-> NoneValue, log |-> <<>>]
Outcome(o, log) == [raised |-> o.raised, val |-> o.val, log |-> log]

\* what a port is configured with for a stage: None, one policy, or a dict
\* from method names to policies (a name without entry holds NoPolicy)
Methods == {"m", "n"}
Mapping(map) == [map |-> map]
IsMapping(configured) == "map" \in DOMAIN configured

\* variant: a dict answers its entry for m, whatever the method
policy_for_first_entry(configured, r_name) ==
    IF IsMapping(configured) THEN configured.map["m"] ELSE configured

\* the policy configured for the method: the entry of a dict (None without
\* entry), or the policy itself
policy_for(configured, r_name) ==
    IF IsMapping(configured) THEN configured.map[r_name] ELSE configured

\* the configuration once the policy of the method has been called (a policy
\* is an object: the port and the caller see its new state)
with_policy(configured, r_name, pol) ==
    IF IsMapping(configured) THEN Mapping([configured.map EXCEPT ![r_name] = pol])
    ELSE pol

RECURSIVE call(_)
RECURSIVE run(_, _, _)

\* default execution: m on every proxy to run, in order; answers a list
run(items, acc, log) ==
    IF items = <<>> THEN {Outcome(Ok(ListValue(acc)), log)}
    ELSE UNION {IF o.raised # "none" THEN {Outcome(o, log \o o.log)}
                ELSE run(Tail(items), Append(acc, o.val), log \o o.log) :
                   o \in call(Head(items))}

default_exec(proxies_to_run) ==
    IF proxies_to_run.kind \in {"PolicyResultSet", "list"}
    THEN run(proxies_to_run.items, <<>>, <<>>)
    ELSE {Err("TypeError")}     \* for ... in <not iterable>

default_result(results) ==
    IF IsPolicyResultSet(results) /\ results.items # <<>>
    THEN ListValue(<<IntValue(0)>>)     \* result = [0]
    ELSE results

\* the three stages of method_proxy: selection, execution, result
select_stage(px) ==
    LET proxies == PolicyResultSet(px.proxies)
        sel == policy_for(selectpolicy[px.port], "m")
    IN IF sel = NoPolicy THEN {Ok(proxies)}
       ELSE {Outcome(o, <<>>) : o \in apply_policy(sel, proxies)}

exec_stage(px) ==
    LET exe == policy_for(execpolicy[px.port], "m")
    IN UNION {IF s.raised # "none" THEN {s}
              ELSE IF exe = NoPolicy THEN default_exec(s.val)
              ELSE {Outcome(o, <<>>) : o \in apply_policy(exe, s.val)} :
                 s \in select_stage(px)}

method_proxy(px) ==
    LET res == policy_for(resultpolicy[px.port], "m")
    IN UNION {IF r.raised # "none" THEN {r}
              ELSE IF res = NoPolicy THEN {Outcome(Ok(default_result(r.val)), r.log)}
              ELSE {Outcome(o, r.log) : o \in apply_policy(res, r.val)} :
                 r \in exec_stage(px)}

\* proxy.m(): a backend answers its value, an aggregated proxy dispatches
call(px) ==
    IF px.kind = "Leaf" THEN {Outcome(Ok(IntValue(Backend[px.res])), <<px.res>>)}
    ELSE IF px.kind = "Proxy" THEN method_proxy(px)
    ELSE {Err("AttributeError")}

(***************************************************************************)
(* Removal of a binding (Component)                                        *)
(***************************************************************************)
remove_port(w, p, name, d) ==
    LET old_port == Lookup(w.children[p], name)
        w1 == [w EXCEPT !.children[p] = Delete(@, name)]
    IN IF IsResource(old_port)
       THEN renew_proxy(remove_resource(w1, p, name, old_port), p, d + 1)
       ELSE w1

(***************************************************************************)
(* Port.multiple and Port.itfs setters                                     *)
(***************************************************************************)
set_multiple(w, p, value) ==
    IF value # w.multiple[p]
    THEN renew_proxy([w EXCEPT !.multiple[p] = ~w.multiple[p]], p, 1)
    ELSE w

set_itfs(w, p, value) == renew_proxy([w EXCEPT !.itfs[p] = value], p, 1)

(***************************************************************************)
(* State machine of the ports                                              *)
(***************************************************************************)
NoRet == [kind |-> "none"]

CommitCall(w, r, log) ==
    /\ itfs' = w.itfs
    /\ multiple' = w.multiple
    /\ children' = w.children
    /\ cache' = w.cache
    /\ bound_on' = w.bound_on
    /\ raised' = w.raised
    /\ ret' = IF w.raised = "none" THEN r ELSE NoRet
    /\ invoked' = log
    /\ renewed' = w.began
    /\ UNCHANGED <<inf, sup, selectpolicy, execpolicy, resultpolicy>>

Commit(w, r) == CommitCall(w, r, <<>>)

\* a thread outside of any operation of the port
Threads == {"W", "R"}
IdleThread ==
    [pc |-> "idle", todo |-> <<>>, acc |-> <<>>, src |-> <<>>, multiple |-> FALSE,
     result |-> NoRet]
ThreadsIdle ==
    /\ heap = <<>>
    /\ thread = [t \in Threads |-> IdleThread]
    /\ asked = NoRet

\* no ImplController is built
NoController == controller = NoRet

PolicyIdle ==
    /\ policy = NoPolicy
    /\ param = NoneValue
    /\ presult = NoneValue
    /\ praised = "none"
    /\ calls = 0

\* a port as constructed: no binding, no proxy yet, no policy
Constructed ==
    /\ children = [p \in Ports |-> <<>>]
    /\ cache = [p \in Ports |-> NoneProxy]
    /\ bound_on = [r \in Resources |-> {}]
    /\ selectpolicy = [p \in Ports |-> NoPolicy]
    /\ execpolicy = [p \in Ports |-> NoPolicy]
    /\ resultpolicy = [p \in Ports |-> NoPolicy]
    /\ raised = "none"
    /\ ret = NoRet
    /\ invoked = <<>>
    /\ renewed = <<>>

\* port P constructed with any interfaces, multiple flag and cardinality;
\* port D with the defaults
Init ==
    /\ \E i \in ItfChoices : itfs = [p \in Ports |-> IF p = "P" THEN i ELSE <<>>]
    /\ \E m \in BOOLEAN : multiple = [p \in Ports |-> IF p = "P" THEN m ELSE default_multiple]
    /\ \E c \in Cardinalities :
          /\ inf = [p \in Ports |-> IF p = "P" THEN c.inf ELSE 0]
          /\ sup = [p \in Ports |-> IF p = "P" THEN c.sup ELSE maxsize]
    /\ Constructed
    /\ PolicyIdle
    /\ ThreadsIdle
    /\ NoController

\* both ports constructed with any interfaces and multiple flag
InitCascade ==
    /\ \E i \in [Pair -> ItfChoices] :
          itfs = [p \in Ports |-> IF p \in Pair THEN i[p] ELSE <<>>]
    /\ \E m \in [Pair -> BOOLEAN] :
          multiple = [p \in Ports |-> IF p \in Pair THEN m[p] ELSE default_multiple]
    /\ \E c \in Cardinalities :
          /\ inf = [p \in Ports |-> IF p = "P" THEN c.inf ELSE 0]
          /\ sup = [p \in Ports |-> IF p = "P" THEN c.sup ELSE maxsize]
    /\ Constructed
    /\ PolicyIdle
    /\ ThreadsIdle
    /\ NoController

\* port[name] = value / port.set_port(value, name)
SetPort(p, port, name) ==
    /\ LET w == set_port(World, p, port, name, 1) IN Commit(w, w.val)
    /\ UNCHANGED <<policyvars, implvars, threadvars>>

\* del port[name]
RemovePort(p, name) ==
    /\ HasName(children[p], name)
    /\ Commit(remove_port(World, p, name, 1), NoRet)
    /\ UNCHANGED <<policyvars, implvars, threadvars>>

\* port.multiple = value
SetMultiple(p, value) ==
    /\ Commit(set_multiple(World, p, value), NoRet)
    /\ UNCHANGED <<policyvars, implvars, threadvars>>

\* port.itfs = value
SetItfs(p, value) ==
    /\ Commit(set_itfs(World, p, value), NoRet)
    /\ UNCHANGED <<policyvars, implvars, threadvars>>

\* port.proxy
ReadProxy(p) ==
    /\ LET w == proxy(World, p, 1) IN Commit(w, w.val)
    /\ UNCHANGED <<policyvars, implvars, threadvars>>

\* port.proxy.m()
CallMethod(p) ==
    /\ LET w == proxy(World, p, 1)
       IN IF w.raised # "none" THEN Commit(w, NoRet)
          ELSE \E o \in call(w.val) : CommitCall(Raise(w, o.raised), o.val, o.log)
    /\ UNCHANGED <<policyvars, implvars, threadvars>>

\* one port P, bound to plain resources and to a value that is no resource
Next ==
    \/ \E name \in Names, port \in Bindable("P") : SetPort("P", port, name)
    \/ \E name \in Names : RemovePort("P", name)
    \/ \E value \in BOOLEAN : SetMultiple("P", value)
    \/ \E value \in ItfChoices : SetItfs("P", value)
    \/ ReadProxy("P")
    \/ CallMethod("P")

Spec == Init /\ [][Next]_vars

\* port P with one resource, and port D that binds P as its resource
NextCascade ==
    \/ \E p \in Pair : \E name \in CascadeNames(p), port \in CascadeBindable(p) :
          SetPort(p, port, name)
    \/ \E p \in Pair : \E name \in CascadeNames(p) : RemovePort(p, name)
    \/ \E p \in Pair, value \in BOOLEAN : SetMultiple(p, value)
    \/ \E p \in Pair, value \in ItfChoices : SetItfs(p, value)
    \/ \E p \in Pair : ReadProxy(p)
    \/ \E p \in Pair : CallMethod(p)

SpecCascade == InitCascade /\ [][NextCascade]_vars

(***************************************************************************)
(* State machine of port P, bound to a plain resource or to a value that   *)
(* is no resource, and of port D, which depends on P                       *)
(***************************************************************************)
FrameBindable(p) == IF p = "D" THEN {"P"} ELSE {"X"} \cup Others

NextFrame ==
    \/ \E p \in Pair : \E port \in FrameBindable(p) : SetPort(p, port, "a")
    \/ \E p \in Pair : RemovePort(p, "a")
    \/ \E p \in Pair, value \in BOOLEAN : SetMultiple(p, value)
    \/ \E p \in Pair : ReadProxy(p)

SpecFrame == InitCascade /\ [][NextFrame]_vars

(***************************************************************************)
(* State machine of two ports that may be bound on each other              *)
(***************************************************************************)
InitCycle ==
    /\ itfs = [p \in Ports |-> <<"IA">>]
    /\ \E m \in [Pair -> BOOLEAN] :
          multiple = [p \in Ports |-> IF p \in Pair THEN m[p] ELSE default_multiple]
    /\ inf = [p \in Ports |-> 0]
    /\ sup = [p \in Ports |-> maxsize]
    /\ Constructed
    /\ PolicyIdle
    /\ ThreadsIdle
    /\ NoController

\* the run ends with the first RecursionError
Running == raised # "RecursionError"

NextCycle ==
    \/ \E p \in Pair : \E name \in Names, port \in CycleBindable(p) :
          Running /\ SetPort(p, port, name)
    \/ \E p \in Pair : \E name \in Names : Running /\ RemovePort(p, name)
    \/ \E p \in Pair : Running /\ ReadProxy(p)

SpecCycle == InitCycle /\ [][NextCycle]_vars

(***************************************************************************)
(* State machine of a chain of three ports                                 *)
(***************************************************************************)
InitChain ==
    /\ itfs = [p \in Ports |-> <<"IA">>]
    /\ multiple \in [Ports -> BOOLEAN]
    /\ inf = [p \in Ports |-> 0]
    /\ sup = [p \in Ports |-> maxsize]
    /\ Constructed
    /\ PolicyIdle
    /\ ThreadsIdle
    /\ NoController

NextChain ==
    \/ \E p \in Ports : \E name \in CascadeNames(p), port \in ChainBindable(p) :
          SetPort(p, port, name)
    \/ \E p \in Ports : \E name \in CascadeNames(p) : RemovePort(p, name)
    \/ \E p \in Ports, value \in BOOLEAN : SetMultiple(p, value)
    \/ \E p \in Ports : ReadProxy(p)

SpecChain == InitChain /\ [][NextChain]_vars

(***************************************************************************)
(* State machine of port P regenerated by thread W while thread R reads    *)
(* port.proxy: one step per statement that reads or writes the port        *)
(***************************************************************************)
MaxObjs == 3       \* proxy objects stored in one run

\* Port._proxy as a reference to a stored object
Ref(i) == [kind |-> "ref", id |-> i]

\* set_port up to the call of _renew_proxy: check, bind, back-references
bind(w, p, port, name) ==
    IF IsResource(port) /\ ~check_res(w, p, port)
    THEN Raise(w, "PortError")
    ELSE LET w1 == component_set_port(w, p, port, name)
             old_port == w1.val.old
             w2 == IF IsResource(old_port)
                   THEN remove_resource(w1, p, name, old_port) ELSE w1
         IN IF IsResource(port) THEN add_resource(w2, p, name, port) ELSE w2

\* del port[name] up to the call of _renew_proxy
unbind(w, p, name) ==
    LET old_port == Lookup(w.children[p], name)
        w1 == [w EXCEPT !.children[p] = Delete(@, name)]
    IN IF IsResource(old_port) THEN remove_resource(w1, p, name, old_port) ELSE w1

\* _renew_proxy: resources = self.resources[inf:sup]; if self.multiple
renew_begin(th, w, p) ==
    LET res == Slice(resources(w, p), inf[p], sup[p])
    IN [th EXCEPT !.pc = "collect", !.todo = res, !.acc = <<>>, !.src = res,
                  !.multiple = w.multiple[p]]

\* variant: every turn of the loop stores what is collected so far in the port
renew_collect_in_place(th, h, c, p) ==
    LET e == Head(th.todo)
        acc == th.acc \o <<[proxy |-> LeafProxy(e.val), name |-> e.name]>>
    IN [thread |-> [th EXCEPT !.acc = acc, !.todo = Tail(@)],
        heap |-> Append(h, [val |-> IF th.multiple THEN ProxySet(p, acc)
                                    ELSE Aggregate(p, acc),
                            src |-> th.src]),
        cache |-> Ref(Len(h) + 1)]

\* one turn of the loop over the resources: the proxy joins a local collection
renew_collect(th, h, c, p) ==
    LET e == Head(th.todo)
        acc == th.acc \o <<[proxy |-> LeafProxy(e.val), name |-> e.name]>>
    IN [thread |-> [th EXCEPT !.acc = acc, !.todo = Tail(@)],
        heap |-> h,
        cache |-> c]

\* self._proxy = None / ProxySet(...) / get_proxy(...): a new object, then the store
renew_store(th, h, c, p) ==
    LET done == [IdleThread EXCEPT !.result = th.result]
    IN IF ~th.multiple /\ th.src = <<>>
       THEN [thread |-> done, heap |-> h, cache |-> NoneProxy]
       ELSE [thread |-> done,
             heap |-> Append(h, [val |-> IF th.multiple THEN ProxySet(p, th.acc)
                                         ELSE Aggregate(p, th.acc),
                                 src |-> th.src]),
             cache |-> Ref(Len(h) + 1)]

InitPublish ==
    /\ itfs = [p \in Ports |-> IF p = "P" THEN <<"IA">> ELSE <<>>]
    /\ \E m \in BOOLEAN : multiple = [p \in Ports |-> IF p = "P" THEN m ELSE default_multiple]
    /\ inf = [p \in Ports |-> 0]
    /\ sup = [p \in Ports |-> maxsize]
    /\ Constructed
    /\ PolicyIdle
    /\ ThreadsIdle
    /\ NoController

PublishFrame ==
    UNCHANGED <<itfs, multiple, inf, sup, selectpolicy, execpolicy, resultpolicy,
                raised, ret, invoked, renewed, policyvars, asked, implvars>>

\* thread W: port[name] = value, up to the regeneration
SetPortStep(name, port) ==
    /\ thread["W"].pc = "idle"
    /\ Len(heap) < MaxObjs - 1
    /\ LET w == bind(World, "P", port, name)
       IN /\ w.raised = "none"
          /\ children' = w.children
          /\ bound_on' = w.bound_on
    /\ thread' = [thread EXCEPT !["W"].pc = "renew"]
    /\ UNCHANGED <<cache, heap>>
    /\ PublishFrame

\* thread W: del port[name], up to the regeneration
RemovePortStep(name) ==
    /\ thread["W"].pc = "idle"
    /\ Len(heap) < MaxObjs - 1
    /\ HasName(children["P"], name)
    /\ LET w == unbind(World, "P", name)
       IN /\ children' = w.children
          /\ bound_on' = w.bound_on
    /\ thread' = [thread EXCEPT !["W"].pc = "renew"]
    /\ UNCHANGED <<cache, heap>>
    /\ PublishFrame

\* thread R: port.proxy, the test of self._proxy is None
GetterStep ==
    /\ thread["R"].pc = "idle"
    /\ cache["P"] = NoneProxy => Len(heap) < MaxObjs - 1
    /\ thread' = [thread EXCEPT !["R"].pc =
                     IF cache["P"] = NoneProxy THEN "renew" ELSE "read"]
    /\ UNCHANGED <<children, bound_on, cache, heap>>
    /\ PublishFrame

\* thread R: port.proxy, result = self._proxy
ReadStep ==
    /\ thread["R"].pc = "read"
    /\ thread' = [thread EXCEPT !["R"].pc = "idle", !["R"].result = cache["P"]]
    /\ UNCHANGED <<children, bound_on, cache, heap>>
    /\ PublishFrame

\* either thread: _renew_proxy reads the resources of the port
RenewBegin(t) ==
    /\ thread[t].pc = "renew"
    /\ thread' = [thread EXCEPT ![t] = renew_begin(thread[t], World, "P")]
    /\ UNCHANGED <<children, bound_on, cache, heap>>
    /\ PublishFrame

\* either thread: _renew_proxy takes the proxy of one more resource
RenewCollect(t) ==
    /\ thread[t].pc = "collect"
    /\ thread[t].todo # <<>>
    /\ LET r == renew_collect(thread[t], heap, cache["P"], "P")
       IN /\ thread' = [thread EXCEPT ![t] = r.thread]
          /\ heap' = r.heap
          /\ cache' = [cache EXCEPT !["P"] = r.cache]
    /\ UNCHANGED <<children, bound_on>>
    /\ PublishFrame

\* either thread: _renew_proxy stores the new proxy; R goes on to read it
RenewStore(t) ==
    /\ thread[t].pc = "collect"
    /\ thread[t].todo = <<>>
    /\ LET r == renew_store(thread[t], heap, cache["P"], "P")
       IN /\ thread' = [thread EXCEPT ![t] =
                           IF t = "R" THEN [r.thread EXCEPT !.pc = "read"] ELSE r.thread]
          /\ heap' = r.heap
          /\ cache' = [cache EXCEPT !["P"] = r.cache]
    /\ UNCHANGED <<children, bound_on>>
    /\ PublishFrame

NextPublish ==
    \/ \E name \in Names, port \in Leafs : SetPortStep(name, port)
    \/ \E name \in Names : RemovePortStep(name)
    \/ GetterStep
    \/ ReadStep
    \/ \E t \in Threads : RenewBegin(t)
    \/ \E t \in Threads : RenewCollect(t)
    \/ \E t \in Threads : RenewStore(t)

SpecPublish == InitPublish /\ [][NextPublish]_vars

(***************************************************************************)
(* ProxySet: the proxies of a multiple port and the names they come from.  *)
(* Every ProxySet port P builds is kept, in order, in heap; the proxies a  *)
(* ProxySet creates (get_proxy) are new objects, known by the set that     *)
(* created them and their rank in it.                                      *)
(***************************************************************************)
\* what each name of a port is bound to: P binds port D and two plain resources
SetBinding(p) ==
    IF p = "D" THEN [a |-> "X", b |-> "Y"] ELSE [a |-> "D", b |-> "X", c |-> "Y"]

StrValue(s) == [kind |-> "str", val |-> s]
\* new_proxy = get_proxy(...): the idx-th object created by the set heap[set]
NewProxy(set, idx) == [kind |-> "new", set |-> set, idx |-> idx]
\* a value that cannot be hashed
Unhashable == [kind |-> "list"]
\* the object a new proxy stands for
Wrapped(np) == heap[np.set].val.elems[np.idx].proxy

\* ProxySet._resource_names_by_proxy of the set heap[i]: new proxy -> name
resource_names_by_proxy(i) ==
    [np \in {NewProxy(i, k) : k \in 1..Len(heap[i].val.elems)} |->
        heap[i].val.elems[np.idx].name]

\* variant: the names are found by the object the proxy stands for
get_resource_name_by_value(i, np) ==
    LET elems == heap[i].val.elems
        found == {k \in 1..Len(elems) :
                     np.kind = "new" /\ elems[k].proxy = Wrapped(np)}
    IN IF found = {} THEN Err("KeyError")
       ELSE Ok(StrValue(elems[CHOOSE k \in found : TRUE].name))

\* heap[i].get_resource_name(proxy); the lookup by id(proxy) finds no key
get_resource_name(i, np) ==
    LET names == resource_names_by_proxy(i)
    IN IF np = Unhashable THEN Err("KeyError")
       ELSE IF np \in DOMAIN names THEN Ok(StrValue(names[np]))
       ELSE Err("KeyError")

\* the ProxySets and aggregated proxies of port P among the proxies an
\* operation stored
Instances(made) ==
    LET mine == SelectSeq(made, LAMBDA m : m.port = "P" /\ m.val.kind # "None")
    IN [k \in 1..Len(mine) |-> [val |-> mine[k].val]]

\* variant: a regeneration rewrites the object the port holds
install_in_place(h, made) ==
    LET new == Instances(made)
    IN IF h = <<>> \/ new = <<>> THEN h \o new
       ELSE [h EXCEPT ![Len(h)] = new[Len(new)]]

\* self._proxy = ProxySet(...) / get_proxy(...): every proxy stored is an object
\* built by the regeneration that stores it
install(h, made) == h \o Instances(made)

\* every new proxy created so far, and a value that is no proxy
Proxies ==
    UNION {DOMAIN resource_names_by_proxy(i) : i \in 1..Len(heap)} \cup {Unhashable}

\* port P is multiple; port D, which P may bind, has any flag
InitProxySet ==
    /\ itfs = [p \in Ports |-> <<"IA">>]
    /\ \E m \in BOOLEAN : multiple = [p \in Ports |-> IF p = "D" THEN m ELSE TRUE]
    /\ inf = [p \in Ports |-> 0]
    /\ sup = [p \in Ports |-> maxsize]
    /\ Constructed
    /\ PolicyIdle
    /\ ThreadsIdle
    /\ NoController

\* port[name] = value on a free name; the ProxySets port P builds are kept
SetPortKept(p, port, name) ==
    /\ ~HasName(children[p], name)
    /\ LET w == set_port(World, p, port, name, 1)
       IN /\ Commit(w, w.val)
          /\ heap' = install(heap, w.made)
    /\ asked' = NoRet
    /\ UNCHANGED <<policyvars, implvars, thread>>

\* heap[i].get_resource_name(np), heap[i] being the current proxy of port P
GetResourceName(i, np) ==
    /\ i = Len(heap)
    /\ LET o == get_resource_name(i, np)
       IN Commit(Raise(World, o.raised), o.val)
    /\ asked' = [set |-> i, proxy |-> np]
    /\ UNCHANGED <<policyvars, implvars, heap, thread>>

NextProxySet ==
    \/ \E p \in Pair : \E name \in DOMAIN SetBinding(p) :
          SetPortKept(p, SetBinding(p)[name], name)
    \/ \E i \in 1..Len(heap), np \in Proxies : GetResourceName(i, np)

SpecProxySet == InitProxySet /\ [][NextProxySet]_vars

(***************************************************************************)
(* State machine of a port and of a caller that keeps a proxy it obtained  *)
(* while the port is bound, unbound and re-flagged                         *)
(***************************************************************************)
MaxKept == 3       \* proxy objects the port builds in one run

InitKept ==
    /\ itfs = [p \in Ports |-> <<"IA">>]
    /\ \E m \in BOOLEAN : multiple = [p \in Ports |-> IF p = "P" THEN m ELSE default_multiple]
    /\ inf = [p \in Ports |-> 0]
    /\ sup = [p \in Ports |-> maxsize]
    /\ Constructed
    /\ PolicyIdle
    /\ ThreadsIdle
    /\ NoController

\* an operation of port P: the proxies it builds are new objects
CommitKept(w) ==
    /\ Commit(w, w.val)
    /\ heap' = install(heap, w.made)
    /\ UNCHANGED <<policyvars, implvars, thread>>

\* port[name] = value
BindKept(name, port) ==
    /\ Len(heap) < MaxKept
    /\ CommitKept(set_port(World, "P", port, name, 1))
    /\ UNCHANGED asked

\* del port[name]
UnbindKept(name) ==
    /\ Len(heap) < MaxKept
    /\ HasName(children["P"], name)
    /\ CommitKept(Return(remove_port(World, "P", name, 1), NoRet))
    /\ UNCHANGED asked

\* port.multiple = value
FlagKept(value) ==
    /\ Len(heap) < MaxKept
    /\ CommitKept(Return(set_multiple(World, "P", value), NoRet))
    /\ UNCHANGED asked

\* held = port.proxy: the caller keeps the object the port holds
ObtainKept ==
    /\ Len(heap) < MaxKept
    /\ LET w == proxy(World, "P", 1)
       IN /\ w.val.kind # "None"
          /\ CommitKept(w)
          /\ asked' = Ref(Len(install(heap, w.made)))

\* held.get_resource_name(np) on a ProxySet obtained earlier
LookupHeld(np) ==
    /\ asked # NoRet
    /\ heap[asked.id].val.kind = "ProxySet"
    /\ np \in DOMAIN resource_names_by_proxy(asked.id)
    /\ LET o == get_resource_name(asked.id, np)
       IN Commit(Raise(World, o.raised), o.val)
    /\ UNCHANGED <<policyvars, implvars, threadvars>>

\* held.m() on an aggregated proxy obtained earlier
CallHeld ==
    /\ asked # NoRet
    /\ heap[asked.id].val.kind = "Proxy"
    /\ \E o \in call(heap[asked.id].val) :
          CommitCall(Raise(World, o.raised), o.val, o.log)
    /\ UNCHANGED <<policyvars, implvars, threadvars>>

NextKept ==
    \/ \E name \in Names, port \in Leafs : BindKept(name, port)
    \/ \E name \in Names : UnbindKept(name)
    \/ \E value \in BOOLEAN : FlagKept(value)
    \/ ObtainKept
    \/ \E np \in {NewProxy(i, k) : i \in 1..MaxKept + 1, k \in 1..Cardinality(Names)} :
          LookupHeld(np)
    \/ CallHeld

SpecKept == InitKept /\ [][NextKept]_vars

(***************************************************************************)
(* State machine of a non-multiple port with policies                      *)
(***************************************************************************)
\* policies a port is constructed with, per stage
SelectChoices == {NoPolicy, Instance("FirstPolicy"), Instance("AllPolicy")}
ExecChoices == {NoPolicy, Instance("FirstPolicy"), Instance("AllPolicy")}
ResultChoices == {NoPolicy, Instance("FirstPolicy")}

InitDispatch ==
    /\ itfs = [p \in Ports |-> IF p = "P" THEN <<"IA">> ELSE <<>>]
    /\ multiple = [p \in Ports |-> IF p = "P" THEN FALSE ELSE default_multiple]
    /\ inf = [p \in Ports |-> 0]
    /\ sup = [p \in Ports |-> maxsize]
    /\ children = [p \in Ports |-> <<>>]
    /\ cache = [p \in Ports |-> NoneProxy]
    /\ bound_on = [r \in Resources |-> {}]
    /\ \E sel \in SelectChoices, exe \in ExecChoices, res \in ResultChoices :
          /\ selectpolicy = [p \in Ports |-> IF p = "P" THEN sel ELSE NoPolicy]
          /\ execpolicy = [p \in Ports |-> IF p = "P" THEN exe ELSE NoPolicy]
          /\ resultpolicy = [p \in Ports |-> IF p = "P" THEN res ELSE NoPolicy]
    /\ raised = "none"
    /\ ret = NoRet
    /\ invoked = <<>>
    /\ renewed = <<>>
    /\ PolicyIdle
    /\ ThreadsIdle
    /\ NoController

NextDispatch ==
    \/ \E name \in Names, port \in Leafs : SetPort("P", port, name)
    \/ \E name \in Names : RemovePort("P", name)
    \/ ReadProxy("P")
    \/ CallMethod("P")

SpecDispatch == InitDispatch /\ [][NextDispatch]_vars

(***************************************************************************)
(* One call of method m on the proxy of the non-multiple port P, stage by  *)
(* stage: thread R is the caller; src holds the proxies to run, todo those *)
(* the default execution has not run yet, acc the results so far, result   *)
(* the raw results                                                         *)
(***************************************************************************)
Arguments == {"u", "v"}
CallSelectChoices == SelectChoices \cup {Instance("RandomPolicy")}
CallExecChoices == {NoPolicy, Instance("AllPolicy")}
CallBindable == Leafs \cup {"D"}

\* what a step of the call leaves: the caller, the backends run, the error
\* and the value returned
Stepped(th, inv, e, v) == [thread |-> th, invoked |-> inv, raised |-> e, ret |-> v]
Iterable(x) == x.kind \in {"PolicyResultSet", "list"}

\* the routine of a plain resource raises when it refuses its argument: m of
\* Y refuses "w"
Refuses(r, args) == r = "Y" /\ args = "w"
\* getattr(proxy_to_run, r_name)(*args, **kwargs)
invoke(px, args) ==
    IF px.kind = "Leaf" /\ Refuses(px.res, args)
    THEN {Outcome(Err("ValueError"), <<px.res>>)}
    ELSE call(px)

\* proxy.m(*args): method_proxy is entered with the proxies of the port
call_begin(th, px) ==
    [IdleThread EXCEPT !.pc = "select", !.src = PolicyResultSet(px.proxies)]

\* the selection stage: proxies_to_run, and the selection policy after its call
select_step(th, px, inv) ==
    LET proxies == PolicyResultSet(px.proxies)
        sel == policy_for(selectpolicy[px.port], asked.op)
    IN {[step |-> IF o.raised # "none"
                  THEN Stepped(IdleThread, inv, o.raised, NoRet)
                  ELSE Stepped([th EXCEPT !.pc = "exec", !.src = o.val,
                                   !.todo = IF Iterable(o.val) THEN o.val.items
                                            ELSE <<>>],
                               inv, "none", NoRet),
         policy |-> o.policy] :
           o \in IF sel = NoPolicy THEN {Returned(NoPolicy, proxies)}
                 ELSE apply_policy(sel, proxies)}

\* variant: the default execution hands over to the result stage after the
\* first proxy it has run
exec_step_stops_early(th, px, inv, args) ==
    LET exe == policy_for(execpolicy[px.port], asked.op)
    IN IF exe = NoPolicy
       THEN IF ~Iterable(th.src)
            THEN {Stepped(IdleThread, inv, "TypeError", NoRet)}
            ELSE IF th.todo = <<>>
            THEN {Stepped([th EXCEPT !.pc = "result", !.result = ListValue(th.acc)],
                          inv, "none", NoRet)}
            ELSE {IF o.raised # "none"
                  THEN Stepped(IdleThread, inv \o <<[res |-> r, args |-> args]>>,
                               o.raised, NoRet)
                  ELSE Stepped([th EXCEPT !.pc = "result", !.todo = Tail(@),
                                          !.result = ListValue(Append(th.acc, o.val))],
                               inv \o <<[res |-> r, args |-> args]>>, "none", NoRet) :
                     o \in invoke(Head(th.todo), args), r \in {Head(th.todo).res}}
       ELSE {IF o.raised # "none" THEN Stepped(IdleThread, inv, o.raised, NoRet)
             ELSE Stepped([th EXCEPT !.pc = "result", !.result = o.val],
                          inv, "none", NoRet) :
                o \in apply_policy(exe, th.src)}

\* variant: the default execution runs the proxies from the last to the first
exec_step_backwards(th, px, inv, args) ==
    LET exe == policy_for(execpolicy[px.port], asked.op)
        n == Len(th.todo)
    IN IF exe = NoPolicy
       THEN IF ~Iterable(th.src)
            THEN {Stepped(IdleThread, inv, "TypeError", NoRet)}
            ELSE IF th.todo = <<>>
            THEN {Stepped([th EXCEPT !.pc = "result", !.result = ListValue(th.acc)],
                          inv, "none", NoRet)}
            ELSE {IF o.raised # "none"
                  THEN Stepped(IdleThread, inv \o <<[res |-> r, args |-> args]>>,
                               o.raised, NoRet)
                  ELSE Stepped([th EXCEPT !.todo = SubSeq(@, 1, n - 1),
                                          !.acc = Append(@, o.val)],
                               inv \o <<[res |-> r, args |-> args]>>, "none", NoRet) :
                     o \in invoke(th.todo[n], args), r \in {th.todo[n].res}}
       ELSE {IF o.raised # "none" THEN Stepped(IdleThread, inv, o.raised, NoRet)
             ELSE Stepped([th EXCEPT !.pc = "result", !.result = o.val],
                          inv, "none", NoRet) :
                o \in apply_policy(exe, th.src)}

\* variant: the default execution goes on with the next proxy when a routine
\* has raised
exec_step_goes_on(th, px, inv, args) ==
    LET exe == policy_for(execpolicy[px.port], asked.op)
    IN IF exe = NoPolicy
       THEN IF ~Iterable(th.src)
            THEN {Stepped(IdleThread, inv, "TypeError", NoRet)}
            ELSE IF th.todo = <<>>
            THEN {Stepped([th EXCEPT !.pc = "result", !.result = ListValue(th.acc)],
                          inv, "none", NoRet)}
            ELSE {IF o.raised # "none"
                  THEN Stepped([th EXCEPT !.todo = Tail(@)],
                               inv \o <<[res |-> r, args |-> args]>>, "none", NoRet)
                  ELSE Stepped([th EXCEPT !.todo = Tail(@), !.acc = Append(@, o.val)],
                               inv \o <<[res |-> r, args |-> args]>>, "none", NoRet) :
                     o \in invoke(Head(th.todo), args), r \in {Head(th.todo).res}}
       ELSE {IF o.raised # "none" THEN Stepped(IdleThread, inv, o.raised, NoRet)
             ELSE Stepped([th EXCEPT !.pc = "result", !.result = o.val],
                          inv, "none", NoRet) :
                o \in apply_policy(exe, th.src)}

\* the execution stage: one turn of the default loop over proxies_to_run (the
\* routine of one proxy, called with the arguments of the caller), or the
\* execution policy
exec_step(th, px, inv, args) ==
    LET exe == policy_for(execpolicy[px.port], asked.op)
    IN IF exe = NoPolicy
       THEN IF ~Iterable(th.src)
            THEN {Stepped(IdleThread, inv, "TypeError", NoRet)}
            ELSE IF th.todo = <<>>
            THEN {Stepped([th EXCEPT !.pc = "result", !.result = ListValue(th.acc)],
                          inv, "none", NoRet)}
            ELSE {IF o.raised # "none"
                  THEN Stepped(IdleThread, inv \o <<[res |-> r, args |-> args]>>,
                               o.raised, NoRet)
                  ELSE Stepped([th EXCEPT !.todo = Tail(@), !.acc = Append(@, o.val)],
                               inv \o <<[res |-> r, args |-> args]>>, "none", NoRet) :
                     o \in invoke(Head(th.todo), args), r \in {Head(th.todo).res}}
       ELSE {IF o.raised # "none" THEN Stepped(IdleThread, inv, o.raised, NoRet)
             ELSE Stepped([th EXCEPT !.pc = "result", !.result = o.val],
                          inv, "none", NoRet) :
                o \in apply_policy(exe, th.src)}

\* the result stage, and the return of the call
result_step(th, px, inv) ==
    LET res == policy_for(resultpolicy[px.port], asked.op)
    IN IF res = NoPolicy
       THEN {Stepped(IdleThread, inv, "none", default_result(th.result))}
       ELSE {IF o.raised # "none" THEN Stepped(IdleThread, inv, o.raised, NoRet)
             ELSE Stepped(IdleThread, inv, "none", o.val) :
                o \in apply_policy(res, th.result)}

\* port P, not multiple, built with any policies; port D with the defaults
InitCall ==
    /\ itfs = [p \in Ports |-> <<"IA">>]
    /\ multiple = [p \in Ports |-> IF p = "P" THEN FALSE ELSE default_multiple]
    /\ inf = [p \in Ports |-> 0]
    /\ sup = [p \in Ports |-> maxsize]
    /\ \E sel \in CallSelectChoices, exe \in CallExecChoices, res \in ResultChoices :
          /\ selectpolicy = [p \in Ports |-> IF p = "P" THEN sel ELSE NoPolicy]
          /\ execpolicy = [p \in Ports |-> IF p = "P" THEN exe ELSE NoPolicy]
          /\ resultpolicy = [p \in Ports |-> IF p = "P" THEN res ELSE NoPolicy]
    /\ children = [p \in Ports |-> <<>>]
    /\ cache = [p \in Ports |-> NoneProxy]
    /\ bound_on = [r \in Resources |-> {}]
    /\ raised = "none"
    /\ ret = NoRet
    /\ invoked = <<>>
    /\ renewed = <<>>
    /\ PolicyIdle
    /\ ThreadsIdle
    /\ NoController

CallFrame ==
    UNCHANGED <<itfs, multiple, inf, sup, children, cache, bound_on,
                execpolicy, resultpolicy, renewed, policyvars, implvars, heap>>

CommitStep(s) ==
    /\ thread' = [thread EXCEPT !["R"] = s.thread]
    /\ invoked' = s.invoked
    /\ raised' = s.raised
    /\ ret' = s.ret
    /\ UNCHANGED asked
    /\ CallFrame

\* port[name] = value, between two calls
BindStep(name, port) ==
    /\ thread["R"].pc = "idle"
    /\ SetPort("P", port, name)

\* the method r_name of the proxy of the port is called with args
CallBegin(r_name, args) ==
    /\ thread["R"].pc = "idle"
    /\ cache["P"].kind = "Proxy"
    /\ thread' = [thread EXCEPT !["R"] = call_begin(thread["R"], cache["P"])]
    /\ asked' = [op |-> r_name, args |-> args]
    /\ invoked' = <<>>
    /\ raised' = "none"
    /\ ret' = NoRet
    /\ UNCHANGED selectpolicy
    /\ CallFrame

SelectStep ==
    /\ thread["R"].pc = "select"
    /\ \E s \in select_step(thread["R"], cache["P"], invoked) :
          /\ CommitStep(s.step)
          /\ selectpolicy' =
                [selectpolicy EXCEPT !["P"] = with_policy(@, asked.op, s.policy)]

ExecStep ==
    /\ thread["R"].pc = "exec"
    /\ \E s \in exec_step(thread["R"], cache["P"], invoked, asked.args) : CommitStep(s)
    /\ UNCHANGED selectpolicy

ResultStep ==
    /\ thread["R"].pc = "result"
    /\ \E s \in result_step(thread["R"], cache["P"], invoked) : CommitStep(s)
    /\ UNCHANGED selectpolicy

NextCall ==
    \/ \E name \in Names, port \in CallBindable : BindStep(name, port)
    \/ \E args \in Arguments : CallBegin("m", args)
    \/ SelectStep
    \/ ExecStep
    \/ ResultStep

SpecCall == InitCall /\ [][NextCall]_vars

(***************************************************************************)
(* State machine of a non-multiple port whose selection policy is a        *)
(* RoundaboutPolicy: calls through the proxy, bindings between the calls,  *)
(* and calls of the policy object itself                                   *)
(***************************************************************************)
\* values the policy object is called with: None, an empty and two non-empty
\* tagged sets
RoundParams ==
    {NoneValue} \cup {PolicyResultSet([i \in 1..n |-> IntValue(i)]) : n \in {0, 1, 3}}

InitRound ==
    /\ itfs = [p \in Ports |-> <<"IA">>]
    /\ multiple = [p \in Ports |-> IF p = "P" THEN FALSE ELSE default_multiple]
    /\ inf = [p \in Ports |-> 0]
    /\ sup = [p \in Ports |-> maxsize]
    /\ selectpolicy =
          [p \in Ports |-> IF p = "P" THEN Instance("RoundaboutPolicy") ELSE NoPolicy]
    /\ \E exe \in CallExecChoices :
          execpolicy = [p \in Ports |-> IF p = "P" THEN exe ELSE NoPolicy]
    /\ resultpolicy = [p \in Ports |-> NoPolicy]
    /\ children = [p \in Ports |-> <<>>]
    /\ cache = [p \in Ports |-> NoneProxy]
    /\ bound_on = [r \in Resources |-> {}]
    /\ raised = "none"
    /\ ret = NoRet
    /\ invoked = <<>>
    /\ renewed = <<>>
    /\ PolicyIdle
    /\ ThreadsIdle
    /\ NoController

\* port.selectpolicy(x): the policy object of the port, called by hand
DirectCall(x) ==
    /\ thread["R"].pc = "idle"
    /\ \E o \in apply_policy(selectpolicy["P"], x) :
          /\ selectpolicy' = [selectpolicy EXCEPT !["P"] = o.policy]
          /\ presult' = o.val
          /\ praised' = o.raised
    /\ param' = x
    /\ UNCHANGED <<itfs, multiple, inf, sup, children, cache, bound_on,
                   execpolicy, resultpolicy, renewed, raised, ret, invoked,
                   policy, calls, threadvars, implvars>>

\* port[name] = value or del port[name], between two calls
RebindStep(name) ==
    /\ thread["R"].pc = "idle"
    /\ \/ \E port \in CallBindable : SetPort("P", port, name)
       \/ RemovePort("P", name)

NextRound ==
    \/ \E name \in Names : RebindStep(name)
    \/ \E x \in RoundParams : DirectCall(x)
    \/ CallBegin("m", "u")
    \/ SelectStep
    \/ ExecStep
    \/ ResultStep

SpecRound == InitRound /\ [][NextRound]_vars

(***************************************************************************)
(* State machine of a non-multiple port whose policies and backends may    *)
(* raise during a call                                                     *)
(***************************************************************************)
\* CountPolicy(inf=2): raises CountError when it is called with one candidate
Demanding == [Instance("CountPolicy") EXCEPT !.inf = 2]
ErrorSelectChoices == {NoPolicy, Demanding}
ErrorExecChoices == {NoPolicy, Instance("AllPolicy"), Demanding}
ErrorResultChoices == {NoPolicy, Demanding}
ErrorArguments == {"u", "w"}

InitError ==
    /\ itfs = [p \in Ports |-> <<"IA">>]
    /\ multiple = [p \in Ports |-> IF p = "P" THEN FALSE ELSE default_multiple]
    /\ inf = [p \in Ports |-> 0]
    /\ sup = [p \in Ports |-> maxsize]
    /\ \E sel \in ErrorSelectChoices, exe \in ErrorExecChoices,
            res \in ErrorResultChoices :
          /\ selectpolicy = [p \in Ports |-> IF p = "P" THEN sel ELSE NoPolicy]
          /\ execpolicy = [p \in Ports |-> IF p = "P" THEN exe ELSE NoPolicy]
          /\ resultpolicy = [p \in Ports |-> IF p = "P" THEN res ELSE NoPolicy]
    /\ children = [p \in Ports |-> <<>>]
    /\ cache = [p \in Ports |-> NoneProxy]
    /\ bound_on = [r \in Resources |-> {}]
    /\ raised = "none"
    /\ ret = NoRet
    /\ invoked = <<>>
    /\ renewed = <<>>
    /\ PolicyIdle
    /\ ThreadsIdle
    /\ NoController

NextError ==
    \/ \E name \in Names, port \in CallBindable : BindStep(name, port)
    \/ \E args \in ErrorArguments : CallBegin("m", args)
    \/ SelectStep
    \/ ExecStep
    \/ ResultStep

SpecError == InitError /\ [][NextError]_vars

(***************************************************************************)
(* State machine of a non-multiple port configured, stage by stage, with   *)
(* nothing, one policy or a dict of policies by method name; both methods  *)
(* of its proxy are called                                                 *)
(***************************************************************************)
\* {}, {'m': pol} and {'n': pol}
Dicts(pol) ==
    {Mapping([r \in Methods |-> NoPolicy]),
     Mapping([r \in Methods |-> IF r = "m" THEN pol ELSE NoPolicy]),
     Mapping([r \in Methods |-> IF r = "n" THEN pol ELSE NoPolicy])}
MappingSelectChoices == {NoPolicy, Instance("FirstPolicy")} \cup Dicts(Instance("FirstPolicy"))
MappingExecChoices == {NoPolicy, Instance("AllPolicy")} \cup Dicts(Instance("AllPolicy"))
MappingResultChoices == {NoPolicy, Instance("FirstPolicy")} \cup Dicts(Instance("FirstPolicy"))

InitMapping ==
    /\ itfs = [p \in Ports |-> <<"IA">>]
    /\ multiple = [p \in Ports |-> IF p = "P" THEN FALSE ELSE default_multiple]
    /\ inf = [p \in Ports |-> 0]
    /\ sup = [p \in Ports |-> maxsize]
    /\ \E sel \in MappingSelectChoices, exe \in MappingExecChoices,
            res \in MappingResultChoices :
          /\ selectpolicy = [p \in Ports |-> IF p = "P" THEN sel ELSE NoPolicy]
          /\ execpolicy = [p \in Ports |-> IF p = "P" THEN exe ELSE NoPolicy]
          /\ resultpolicy = [p \in Ports |-> IF p = "P" THEN res ELSE NoPolicy]
    /\ children = [p \in Ports |-> <<>>]
    /\ cache = [p \in Ports |-> NoneProxy]
    /\ bound_on = [r \in Resources |-> {}]
    /\ raised = "none"
    /\ ret = NoRet
    /\ invoked = <<>>
    /\ renewed = <<>>
    /\ PolicyIdle
    /\ ThreadsIdle
    /\ NoController

NextMapping ==
    \/ \E name \in Names, port \in Leafs : BindStep(name, port)
    \/ \E r_name \in Methods : CallBegin(r_name, "u")
    \/ SelectStep
    \/ ExecStep
    \/ ResultStep

SpecMapping == InitMapping /\ [][NextMapping]_vars

(***************************************************************************)
(* State machine of a policy instance called with candidate sets           *)
(***************************************************************************)
MaxLen == 5          \* longest candidate set handed to a policy
MaxCountInf == 3     \* largest inf of a CountPolicy
MaxCountSup == 4     \* largest finite sup of a CountPolicy

MaxCalls == 7        \* calls made to one policy instance

PolicyClasses == {"FirstPolicy", "AllPolicy", "RandomPolicy", "RoundaboutPolicy"}

\* the instances of CountPolicy, and one instance of each other class
CountPolicies ==
    [cls : {"CountPolicy"}, inf : 0..MaxCountInf,
     sup : 0..MaxCountSup \cup {maxsize}, random : BOOLEAN, index : {0}]
PolicyInstances == CountPolicies \cup {Instance(cls) : cls \in PolicyClasses}

\* PolicyResultSet([1, ..., n]), None and plain lists
Candidates(n) == PolicyResultSet([i \in 1..n |-> IntValue(i)])
PolicyParams ==
    {Candidates(n) : n \in 0..MaxLen}
        \cup {NoneValue, ListValue(<<>>), ListValue(<<IntValue(1), IntValue(2)>>)}

PortsIdle ==
    /\ itfs = [p \in Ports |-> <<>>]
    /\ multiple = [p \in Ports |-> default_multiple]
    /\ inf = [p \in Ports |-> 0]
    /\ sup = [p \in Ports |-> maxsize]
    /\ children = [p \in Ports |-> <<>>]
    /\ cache = [p \in Ports |-> NoneProxy]
    /\ bound_on = [r \in Resources |-> {}]
    /\ selectpolicy = [p \in Ports |-> NoPolicy]
    /\ execpolicy = [p \in Ports |-> NoPolicy]
    /\ resultpolicy = [p \in Ports |-> NoPolicy]
    /\ raised = "none"
    /\ ret = NoRet
    /\ invoked = <<>>
    /\ renewed = <<>>

InitPolicy ==
    /\ PortsIdle
    /\ ThreadsIdle
    /\ NoController
    /\ policy \in PolicyInstances
    /\ param = NoneValue
    /\ presult = NoneValue
    /\ praised = "none"
    /\ calls = 0

\* policy(param)
PolicyCall(x) ==
    /\ \E o \in apply_policy(policy, x) :
          /\ policy' = o.policy
          /\ presult' = o.val
          /\ praised' = o.raised
    /\ param' = x
    /\ UNCHANGED <<portvars, threadvars, implvars, calls>>

NextPolicy == \E x \in PolicyParams : PolicyCall(x)

SpecPolicy == InitPolicy /\ [][NextPolicy]_vars

(***************************************************************************)
(* State machine of a fresh policy instance called repeatedly with one     *)
(* same value                                                              *)
(***************************************************************************)
InitRepeat ==
    /\ PortsIdle
    /\ ThreadsIdle
    /\ NoController
    /\ policy \in {Instance(cls) : cls \in PolicyClasses}
    /\ param \in PolicyParams
    /\ presult = NoneValue
    /\ praised = "none"
    /\ calls = 0

\* policy(param), once more
RepeatCall ==
    /\ calls < MaxCalls
    /\ \E o \in apply_policy(policy, param) :
          /\ policy' = o.policy
          /\ presult' = o.val
          /\ praised' = o.raised
    /\ calls' = calls + 1
    /\ UNCHANGED <<portvars, threadvars, implvars, param>>

NextRepeat == RepeatCall

SpecRepeat == InitRepeat /\ [][NextRepeat]_vars

(***************************************************************************)
(* ImplController (controller/impl.py): the class of the business          *)
(* implementation of a component, and the implementation itself            *)
(***************************************************************************)
Classes == {"A", "B", "C"}
Class(c) == [kind |-> "class", name |-> c]
\* keyword arguments of a constructor: none, one the class takes, one it does not
Params == {"none", "good", "bad"}
\* an instance of class c built with params
Object(c, params) == [kind |-> "object", class |-> c, params |-> params]

\* value.__class__
class_of(value) ==
    CASE value.kind = "object" -> Class(value.class)
      [] value.kind = "None" -> Class("NoneType")
      [] value.kind = "class" -> Class("type")
      [] value.kind = "str" -> Class("str")
      [] OTHER -> Class("int")

\* lookup(path): the class the path names, if there is one
lookup(value) ==
    IF value.val \in Classes THEN Ok(Class(value.val))
    ELSE IF value.val = "one" THEN Ok(IntValue(1))
    ELSE Err("ImportError")

isclass(value) == value.kind = "class"

Controller(cls, impl) == [cls |-> cls, impl |-> impl]
\* the outcome of an operation of the controller: its fields, what it raised
\* and what it returned
Done(ctl, e, v) == [ctl |-> ctl, raised |-> e, val |-> v]

\* variant: the class changes and the implementation stays
set_cls_keeps_impl(ctl, value) ==
    LET found == IF value.kind = "str" THEN lookup(value) ELSE Ok(value)
    IN IF found.raised # "none" THEN Done(ctl, found.raised, NoRet)
       ELSE IF isclass(found.val)
       THEN Done(Controller(found.val,
                            IF ctl = NoRet THEN NoneValue ELSE ctl.impl),
                 "none", NoRet)
       ELSE Done(ctl, "TypeError", NoRet)

\* ImplController.cls = value
set_cls(ctl, value) ==
    LET found == IF value.kind = "str" THEN lookup(value) ELSE Ok(value)
    IN IF found.raised # "none" THEN Done(ctl, found.raised, NoRet)
       ELSE IF isclass(found.val)
       THEN Done(Controller(found.val, NoneValue), "none", NoRet)
       ELSE Done(ctl, "TypeError", NoRet)

\* ImplController.impl = value
set_impl(ctl, value) ==
    LET r == set_cls(ctl, class_of(value))
    IN IF r.raised # "none" THEN r
       ELSE Done([r.ctl EXCEPT !.impl = value], "none", NoRet)

\* self._cls(**params)
instantiate(cls, params) ==
    IF cls.name \in Classes /\ params # "bad"
    THEN Ok(Object(cls.name, params))
    ELSE Err("TypeError")

\* ImplController.renew_impl(cls=cls, params=params), without a component
renew_impl(ctl, cls, params) ==
    LET r1 == set_cls(ctl, cls)
    IN IF r1.raised # "none" THEN r1
       ELSE LET o == instantiate(r1.ctl.cls, params)
            IN IF o.raised # "none" THEN Done(r1.ctl, o.raised, NoRet)
               ELSE LET r2 == set_impl(r1.ctl, o.val)
                    IN IF r2.raised # "none" THEN r2
                       ELSE Done(r2.ctl, "none", o.val)

\* values assigned to cls or given to renew_impl: classes, a path of a class,
\* a path of nothing, a path of something that is no class, no class
ClsValues ==
    {Class(c) : c \in Classes}
        \cup {NoneValue, StrValue("A"), StrValue("nowhere"), StrValue("one"),
              IntValue(1)}
\* values assigned to impl
ImplValues == {Object(c, p) : c \in Classes, p \in Params \ {"bad"}} \cup {NoneValue}

portstate == <<itfs, multiple, inf, sup, children, cache, bound_on,
               selectpolicy, execpolicy, resultpolicy, invoked, renewed>>

\* ImplController(cls=c): __init__ assigns cls
InitImpl ==
    /\ PortsIdle
    /\ PolicyIdle
    /\ ThreadsIdle
    /\ \E c \in Classes : controller = set_cls(NoRet, Class(c)).ctl

CommitImpl(r) ==
    /\ controller' = r.ctl
    /\ raised' = r.raised
    /\ ret' = r.val
    /\ UNCHANGED <<portstate, policyvars, heap, thread>>

\* controller.cls = value
SetCls(value) ==
    /\ CommitImpl(set_cls(controller, value))
    /\ asked' = NoRet

\* controller.impl = value
SetImpl(value) ==
    /\ CommitImpl(set_impl(controller, value))
    /\ asked' = NoRet

\* controller.renew_impl(cls=cls, params=params)
RenewImpl(cls, params) ==
    /\ CommitImpl(renew_impl(controller, cls, params))
    /\ asked' = [op |-> "renew_impl", cls |-> cls, params |-> params]

NextImpl ==
    \/ \E value \in ClsValues : SetCls(value)
    \/ \E value \in ImplValues : SetImpl(value)
    \/ \E cls \in ClsValues, params \in Params : RenewImpl(cls, params)

SpecImpl == InitImpl /\ [][NextImpl]_vars

(***************************************************************************)
(* Properties                                                              *)
(***************************************************************************)
\* every interface of the first list is a sub-interface of every one of the second
Compatible(resource_itfs, port_itfs) ==
    \A i \in 1..Len(resource_itfs), j \in 1..Len(port_itfs) :
        is_sub_itf(resource_itfs[i], port_itfs[j])

CompatibleWith(p, v) == Compatible(ItfsOf(World, v), itfs[p])

PortState == <<itfs, multiple, children, cache, bound_on>>

\* C1: check_res answers true exactly when every interface of the resource is a
\* sub-interface of every interface of the port.
C1_CheckResIsCompatibility ==
    \A p \in Ports, r \in Resources : check_res(World, p, r) <=> CompatibleWith(p, r)

\* C2: set_port succeeds exactly when the value is no Resource or is a compatible
\* Resource, and raises PortError otherwise.
C2_SetPortSucceedsIffCompatible ==
    [][\A name \in Names, port \in Bindable("P") :
         SetPort("P", port, name) =>
            /\ (raised' = "none") <=> (~IsResource(port) \/ CompatibleWith("P", port))
            /\ (raised' = "PortError") <=> (IsResource(port) /\ ~CompatibleWith("P", port))]_vars

\* C3: a set_port that raises PortError leaves bindings, cached proxies,
\* back-references and the dependent ports unchanged.
C3_PortErrorChangesNothing ==
    [][\A p \in Pair : \A name \in CascadeNames(p), port \in CascadeBindable(p) :
         (SetPort(p, port, name) /\ raised' = "PortError") => UNCHANGED PortState]_vars

\* the proxy a port has when it is built from the resources bound to it now
RECURSIVE FreshProxy(_)
RECURSIVE FreshElems(_)
FreshElems(res) ==
    IF res = <<>> THEN <<>>
    ELSE LET e == Head(res)
             px == IF e.val \in Leafs THEN LeafProxy(e.val) ELSE FreshProxy(e.val)
         IN (IF px.kind = "ProxySet"
             THEN [i \in 1..Len(px.elems) |->
                     [proxy |-> px.elems[i].proxy, name |-> e.name]]
             ELSE <<[proxy |-> px, name |-> e.name]>>) \o FreshElems(Tail(res))
FreshProxy(p) ==
    LET res == Slice(resources(World, p), inf[p], sup[p])
    IN IF multiple[p] THEN ProxySet(p, FreshElems(res))
       ELSE IF res = <<>> THEN NoneProxy
       ELSE Aggregate(p, FreshElems(res))

\* C4: after every bind, rebind and unbind, a read of port.proxy answers the proxy
\* built from exactly the resources (of the port's window) bound at that moment.
C4_ProxyReadIsFresh ==
    \A p \in Ports :
        LET w == proxy(World, p, 1)
        IN w.raised = "none" /\ w.val = FreshProxy(p)

\* C5: every Resource bound to a port is compatible with the port's current
\* required interfaces.
C5_BoundResourcesCompatible ==
    \A p \in Ports : \A i \in 1..Len(children[p]) :
        IsResource(children[p][i].val) => CompatibleWith(p, children[p][i].val)

\* C6: a successful set_port(resource, name) leaves name bound to resource, once,
\* and returns (name, the value bound under name before the call, or None).
C6_SetPortBindsAndReturnsPrevious ==
    [][\A name \in Names, port \in Bindable("P") :
         (SetPort("P", port, name) /\ raised' = "none") =>
            /\ Lookup(children'["P"], name) = port
            /\ Cardinality({i \in 1..Len(children'["P"]) :
                               children'["P"][i].name = name}) = 1
            /\ ret' = [kind |-> "pair", name |-> name,
                       old |-> Lookup(children["P"], name)]]_vars

\* a set_port has replaced a previous binding by another value
C6_Witness ==
    /\ raised = "none"
    /\ ret.kind = "pair"
    /\ ret.old # None
    /\ Lookup(children["P"], ret.name) # ret.old

\* C7: with multiple=False, inf=1, sup=2, no policy, X (returns 1) bound first and
\* Y (returns 2) bound second, the shared method called through port.proxy
\* returns 1.
C7_EndToEndReturnsOne ==
    ( /\ ~multiple["P"] /\ inf["P"] = 1 /\ sup["P"] = 2
      /\ children["P"] = <<[name |-> "a", val |-> "X"], [name |-> "b", val |-> "Y"]>> )
    => LET w == proxy(World, "P", 1)
       IN /\ w.raised = "none"
          /\ \A o \in call(w.val) : o.raised = "none" /\ o.val = IntValue(1)

CountCalled == policy.cls = "CountPolicy" /\ IsPolicyResultSet(param)

\* C8: CountPolicy(inf=2, sup=4, random=False): fewer than 2 candidates raise
\* CountError, 2 to 4 candidates are all used, of more than 4 the first 4 are used.
C8_CountWindowTwoToFour ==
    (CountCalled /\ policy.inf = 2 /\ policy.sup = 4 /\ ~policy.random) =>
        LET n == Len(param.items)
        IN /\ n < 2 => praised = "CountError"
           /\ n \in 2..4 => (praised = "none" /\ presult = param)
           /\ n > 4 => (praised = "none" /\
                        presult = PolicyResultSet(SubSeq(param.items, 1, 4)))

\* C9: with inf <= sup a call of CountPolicy on a tagged set raises CountError or
\* returns a tagged set of k candidates with inf <= k <= sup.
C9_CountResultWithinBounds ==
    (CountCalled /\ policy.inf <= policy.sup) =>
        \/ praised = "CountError"
        \/ /\ IsPolicyResultSet(presult)
           /\ policy.inf <= Len(presult.items)
           /\ Len(presult.items) <= policy.sup

C11_UntaggedPassesThrough ==
    [][param'.kind # "PolicyResultSet" =>
          /\ praised' = "none"
          /\ presult' = param'
          /\ policy' = policy]_vars

\* a RoundaboutPolicy that has advanced was called with a plain list
C11_Witness ==
    /\ policy.cls = "RoundaboutPolicy" /\ policy.index > 0
    /\ param = ListValue(<<IntValue(1), IntValue(2)>>)
    /\ presult = param

C13_RoundaboutCycles ==
    (policy.cls = "RoundaboutPolicy" /\ IsPolicyResultSet(param) /\ calls >= 1) =>
        (param.items # <<>> =>
            /\ praised = "none"
            /\ presult = param.items[((calls - 1) % Len(param.items)) + 1])

\* the call after a full round answers the first element again
C13_Witness ==
    /\ policy.cls = "RoundaboutPolicy" /\ IsPolicyResultSet(param)
    /\ Len(param.items) >= 2
    /\ calls = Len(param.items) + 1
    /\ presult = param.items[1]

\* C14: FirstPolicy called with a non-empty tagged set returns its first element,
\* whatever was called before, and keeps no state.
C14_FirstReturnsFirst ==
    (policy.cls = "FirstPolicy" /\ IsPolicyResultSet(param)) =>
        (param.items # <<>> =>
            /\ praised = "none"
            /\ presult = param.items[1]
            /\ policy = Instance("FirstPolicy"))

\* FirstPolicy answered the first of several elements
C14_Witness ==
    /\ policy.cls = "FirstPolicy" /\ IsPolicyResultSet(param)
    /\ Len(param.items) >= 2
    /\ presult = param.items[1]

C17_EmptyWindowGivesNone ==
    (~multiple["P"] /\ Slice(resources(World, "P"), inf["P"], sup["P"]) = <<>>) =>
        /\ cache["P"] = NoneProxy
        /\ invoked = <<>>
        /\ LET w == proxy(World, "P", 1)
           IN w.raised = "none" /\ w.val = NoneProxy /\ call(w.val) = {Err("AttributeError")}

\* the method was called through a port that has a resource outside its window
C17_Witness ==
    /\ ~multiple["P"]
    /\ resources(World, "P") # <<>>
    /\ Slice(resources(World, "P"), inf["P"], sup["P"]) = <<>>
    /\ raised = "AttributeError"

\* C18: the regeneration cascade ends for every graph of bindings, a cyclic one
\* included: the set_port that starts it returns (or refuses the value), it does
\* not exhaust the stack.
C18_CascadeTerminates ==
    [][\A p \in Pair : \A name \in Names, port \in CycleBindable(p) :
         SetPort(p, port, name) => raised' \in {"none", "PortError"}]_vars

\* the proxy a port has when it is built from its bindings now, with the proxies
\* the ports bound to it hold now
RECURSIVE CachedElems(_)
CachedElems(res) ==
    IF res = <<>> THEN <<>>
    ELSE LET e == Head(res)
             px == IF e.val \in Leafs THEN LeafProxy(e.val) ELSE cache[e.val]
         IN (IF px.kind = "ProxySet"
             THEN [i \in 1..Len(px.elems) |->
                     [proxy |-> px.elems[i].proxy, name |-> e.name]]
             ELSE <<[proxy |-> px, name |-> e.name]>>) \o CachedElems(Tail(res))
BuiltFromCache(p) ==
    LET res == Slice(resources(World, p), inf[p], sup[p])
    IN IF multiple[p] THEN ProxySet(p, CachedElems(res))
       ELSE IF res = <<>> THEN NoneProxy
       ELSE Aggregate(p, CachedElems(res))

\* the ports a resource is bound to, and those reached through them
Binders(r) == {q \in Ports : \E n \in Names : <<q, n>> \in bound_on[r]}
Dependents(r) == Binders(r) \cup UNION {Binders(q) : q \in Binders(r)}

\* every port that depends on P holds P (or the port between them) under each
\* recorded name and has the proxy built from the proxies held now
CascadeDone ==
    /\ cache["P"] = BuiltFromCache("P")
    /\ \A q \in Dependents("P") :
          /\ cache[q] = BuiltFromCache(q)
          /\ \A r \in Resources, n \in Names :
                <<q, n>> \in bound_on[r] => Lookup(children[q], n) = r

\* C19: when a set_port or a toggle of multiple on P returns, every port that has
\* P bound, directly or through a chain, has been re-assigned and holds a proxy
\* built from P's new proxy, itself the proxy of P's bindings.
C19_CascadeIsSynchronous ==
    [][( /\ \/ \E name \in CascadeNames("P"), port \in ChainBindable("P") :
                  SetPort("P", port, name)
            \/ SetMultiple("P", ~multiple["P"])
         /\ raised' = "none" ) => CascadeDone']_vars

\* P.set_port has returned with D bound on P and E bound on D
C19_Witness ==
    /\ raised = "none"
    /\ ret = [kind |-> "pair", name |-> "a", old |-> "X"]
    /\ Dependents("P") = {"D", "E"}
    /\ cache["E"] = BuiltFromCache("E")
    /\ cache["E"].kind = "Proxy" /\ cache["E"].proxies # <<>>

\* a stored proxy object holds the proxy of every resource it was built for
Complete(o) ==
    o.val = IF o.val.kind = "ProxySet" THEN ProxySet("P", FreshElems(o.src))
            ELSE Aggregate("P", FreshElems(o.src))

\* what a reference or None stands for is a finished proxy
Finished(r) == r.kind = "ref" => (r.id \in 1..Len(heap) /\ Complete(heap[r.id]))

\* C20: a reader of port.proxy that runs along a regeneration gets the whole
\* previous or the whole new proxy: the port's reference is written once per
\* regeneration, when the new proxy is built, and no stored proxy changes.
C20_ProxyPublishedWhole ==
    [][/\ Finished(thread["R"].result)'
       /\ Finished(cache["P"])'
       /\ thread'["R"].result \in {thread["R"].result, cache["P"], cache'["P"]}
       /\ \A i \in 1..Len(heap) : i <= Len(heap') /\ heap'[i] = heap[i]
       /\ cache'["P"] # cache["P"] =>
             \E t \in Threads :
                /\ thread[t].pc = "collect" /\ thread[t].todo = <<>>
                /\ thread'[t].pc \in {"idle", "read"}]_vars

\* the reader got the previous proxy while the writer was collecting the new one
C20_Witness ==
    /\ thread["W"].pc = "collect" /\ thread["W"].acc # <<>> /\ thread["W"].todo # <<>>
    /\ thread["R"].result.kind = "ref"
    /\ thread["R"].result = cache["P"]
    /\ heap[cache["P"].id].src # thread["W"].src

\* C23: a port constructed without a multiple argument has multiple = False
\* (ports D and E are constructed with the defaults and never re-flagged)
C23_DefaultMultipleIsFalse ==
    \A p \in Ports \ {"P"} : multiple[p] = FALSE

\* the number of proxies a bound resource stands for: the elements of its
\* ProxySet if it has one, itself otherwise
Size(r) ==
    IF r \in Ports /\ cache[r].kind = "ProxySet" THEN Len(cache[r].elems) ELSE 1

\* the name of each binding, once per proxy it stands for
RECURSIVE ExpectedNames(_)
ExpectedNames(res) ==
    IF res = <<>> THEN <<>>
    ELSE [k \in 1..Size(Head(res).val) |-> Head(res).name] \o ExpectedNames(Tail(res))

\* the last ProxySet port P built holds one proxy per element of a
\* multi-valued resource of P and one per single-valued resource, and names
\* each of them after the resource it comes from
FlattenedOneLevel ==
    LET i == Len(heap)
        ps == heap[i].val
        res == resources(World, "P")
    IN /\ cache["P"] = ps
       /\ Len(ps.elems) = Len(ExpectedNames(res))
       /\ \A k \in 1..Len(ps.elems) :
             get_resource_name(i, NewProxy(i, k)) = Ok(StrValue(ExpectedNames(res)[k]))
       /\ (Len(res) = 3 /\ Size("D") = 2) => Len(ps.elems) = 4

C22_ForeignProxyIsLookupError ==
    (asked # NoRet /\ (asked.proxy.kind # "new" \/ asked.proxy.set # asked.set)) =>
        raised = "KeyError" /\ ret = NoRet

\* the current ProxySet of the port was asked for a proxy an earlier ProxySet
\* of the port created for the same backend
C22_Witness ==
    /\ asked # NoRet
    /\ asked.proxy.kind = "new"
    /\ asked.proxy.set < asked.set
    /\ \E k \in 1..Len(heap[asked.set].val.elems) :
          heap[asked.set].val.elems[k].proxy = Wrapped(asked.proxy)
    /\ raised = "KeyError"

\* C24: renew_impl called with cls=None instantiates the current class of the
\* controller with the params given, stores the instance as impl, returns it
\* and raises nothing
C24_RenewImplDefaultsToCurrentClass ==
    [][(asked' # NoRet /\ asked'.cls = NoneValue) =>
          /\ raised' = "none"
          /\ ret' = Object(controller.cls.name, asked'.params)
          /\ controller' = Controller(controller.cls, ret')]_vars

\* the ports whose _renew_proxy ran in the last operation
Renewed == {renewed[i] : i \in 1..Len(renewed)}

\* set_port of port p regenerates the proxy of p exactly when the old or the
\* new value is a Resource; when neither is, no proxy changes and no
\* regeneration runs at all
RegeneratesIffResource(p, port, name) ==
    LET change_of_resources ==
            IsResource(Lookup(children[p], name)) \/ IsResource(port)
    IN /\ (p \in Renewed') <=> change_of_resources
       /\ ~change_of_resources => (cache' = cache /\ renewed' = <<>>)

C26_MultipleToggleRegenerates ==
    [][\A p \in Pair, value \in BOOLEAN :
          SetMultiple(p, value) =>
              IF value # multiple[p]
              THEN /\ raised' = "none"
                   /\ multiple'[p] = value
                   /\ p \in Renewed'
                   /\ cache'[p] = BuiltFromCache(p)'
                   /\ cache'[p].kind = IF value THEN "ProxySet"
                                       ELSE IF cache'[p] = NoneProxy THEN "None"
                                       ELSE "Proxy"
                   /\ \A q \in Binders(p) :
                         q \in Renewed' /\ cache'[q] = BuiltFromCache(q)'
              ELSE /\ multiple' = multiple
                   /\ cache' = cache
                   /\ children' = children
                   /\ renewed' = <<>>]_vars

\* C27: once a regeneration of the proxy of a port has completed, a read of
\* port.proxy that follows it with no mutation in between answers the cached
\* value, regenerates nothing and propagates nothing, whatever the port is
\* (a non-multiple port without eligible resource included)
C27_ReadAfterRegenerationIsCached ==
    [][("P" \in Renewed /\ raised = "none" /\ ReadProxy("P")) =>
          /\ raised' = "none"
          /\ ret' = cache["P"]
          /\ cache' = cache
          /\ renewed' = <<>>]_vars

\* the stage the call is in, and the moves from stage to stage
Stage == thread["R"].pc
StageOrder ==
    {<<"idle", "select">>, <<"select", "exec">>, <<"exec", "result">>,
     <<"result", "idle">>, <<"select", "idle">>, <<"exec", "idle">>}

\* C28: within one call the stages run in the order select, execute, result,
\* each at most once: a backend is invoked only after the selection has
\* returned and before the result stage starts, and the result stage of a
\* default execution starts when every proxy to run has been run
C28_StagesInOrder ==
    [][/\ Stage' # Stage => <<Stage, Stage'>> \in StageOrder
       /\ Stage' = "select" => invoked' = <<>>
       /\ (invoked' # invoked /\ invoked' # <<>>) =>
              (Stage = "exec" /\ Stage' \in {"exec", "idle"})
       /\ (Stage = "exec" /\ Stage' = "result" /\ execpolicy["P"] = NoPolicy) =>
              /\ thread["R"].todo = <<>>
              /\ Len(invoked) = Len(thread["R"].src.items)]_vars

\* the result stage is reached after a selection policy and two backends ran
C28_Witness ==
    /\ Stage = "result"
    /\ selectpolicy["P"] # NoPolicy
    /\ Len(invoked) = 2

\* C29: without execution policy the call runs m once on every selected
\* candidate, in the order of the candidates and with the arguments of the
\* caller, and the raw results are the list of the values returned, in that
\* order; without selection policy the selected candidates are all the
\* candidates
C29_DefaultExecutionRunsEachOnce ==
    (Stage = "result" /\ execpolicy["P"] = NoPolicy) =>
        LET sel == thread["R"].src.items
            raw == thread["R"].result
        IN /\ invoked = [i \in 1..Len(sel) |-> [res |-> sel[i].res, args |-> asked.args]]
           /\ raw.kind = "list" /\ Len(raw.items) = Len(sel)
           /\ \A i \in 1..Len(sel) : raw.items[i] \in {o.val : o \in call(sel[i])}
           /\ selectpolicy["P"] = NoPolicy =>
                 thread["R"].src = PolicyResultSet(cache["P"].proxies)

\* the default execution of a call m("v") has run the two candidates of a port
\* without selection policy
C29_Witness ==
    /\ Stage = "result"
    /\ execpolicy["P"] = NoPolicy /\ selectpolicy["P"] = NoPolicy
    /\ asked.args = "v"
    /\ Len(invoked) = 2 /\ invoked[1].res # invoked[2].res

\* C30: when the selection answers one proxy and there is no execution policy,
\* the call runs m once, on that proxy; when it answers null, no backend is run
\* and the default execution does not fail
C30_SingleSelectionRunsOnce ==
    [][(Stage = "exec" /\ execpolicy["P"] = NoPolicy /\ ~Iterable(thread["R"].src)) =>
          /\ raised' = "none"
          /\ invoked' = IF thread["R"].src = NoneValue THEN <<>>
                        ELSE <<[res |-> thread["R"].src.res, args |-> asked.args]>>]_vars
\* impl is null or an instance of exactly the current cls
ImplOfCls ==
    \/ controller.impl = NoneValue
    \/ /\ controller.impl.kind = "object"
       /\ Class(controller.impl.class) = controller.cls

\* value is no class, and no path of one
NonClass(value) ==
    IF value.kind = "str"
    THEN lookup(value).raised = "none" /\ ~isclass(lookup(value).val)
    ELSE ~isclass(value)

\* C37: after any sequence of assignments to cls, assignments to impl and
\* calls of renew_impl, impl is null or an instance whose class is exactly
\* the current cls; an assignment to cls that succeeds resets impl to null,
\* and an assignment of a non-class raises TypeError and leaves cls and impl
\* as they were.
C37_ImplIsOfCurrentClass ==
    /\ ImplOfCls
    /\ [][/\ ImplOfCls'
          /\ \A value \in ClsValues :
                SetCls(value) =>
                  /\ raised' = "none" => controller'.impl = NoneValue
                  /\ raised' # "none" => controller' = controller
                  /\ NonClass(value) =>
                        raised' = "TypeError" /\ controller' = controller]_vars

\* an operation has failed with TypeError on a controller that holds an
\* implementation
C37_Witness ==
    /\ raised = "TypeError"
    /\ controller.impl # NoneValue
    /\ controller.impl.kind = "object"
\* the elements of items at positions lo up to (not including) hi
Window(items, lo, hi) ==
    [i \in 1..Max(0, Min(hi, Len(items)) - lo) |-> items[lo + i]]

\* C33: CountPolicy called with a tagged set of at least inf elements returns a
\* tagged set: when not random, the elements at positions inf up to (not
\* including) sup in their order; when random, min(len, sup - inf) elements
\* at distinct positions of the input.
C33_CountSelectsWindow ==
    (CountCalled /\ Len(param.items) >= policy.inf) =>
        /\ praised = "none"
        /\ IsPolicyResultSet(presult)
        /\ IF policy.random
           THEN /\ Len(presult.items) = Min(Len(param.items), policy.sup - policy.inf)
                /\ \A i, j \in 1..Len(presult.items) :
                      presult.items[i] = presult.items[j] => i = j
                /\ \A i \in 1..Len(presult.items) :
                      \E j \in 1..Len(param.items) : presult.items[i] = param.items[j]
           ELSE presult.items = Window(param.items, policy.inf, policy.sup)

\* C35: a RoundaboutPolicy called with a non-empty tagged set, whatever the
\* lengths of the sets of its earlier calls, returns an element of that set
\* and does not fail.
C35_RoundaboutStaysInRange ==
    (policy.cls = "RoundaboutPolicy" /\ IsPolicyResultSet(param)
        /\ param.items # <<>>) =>
        /\ praised = "none"
        /\ \E j \in 1..Len(param.items) : presult = param.items[j]
\* the cursor of the RoundaboutPolicy of port P
Cursor == selectpolicy["P"].index
\* the step is a call of that policy on a non-empty tagged set: the selection
\* of a call through the proxy, or a call of the policy object
RoundaboutCalled ==
    \/ /\ Stage = "select" /\ Stage' # "select"
       /\ cache["P"].proxies # <<>>
    \/ \E x \in RoundParams :
          IsPolicyResultSet(x) /\ x.items # <<>> /\ DirectCall(x)

\* C34: the cursor of a RoundaboutPolicy changes only in a call of that
\* instance on a non-empty tagged set: a call with an empty tagged set or with
\* an untagged value, and a regeneration of the proxy of the port, leave it as
\* it is, and a call on a non-empty set reads the position where the rotation
\* stopped.
C34_CursorChangesOnlyInCall ==
    [][/\ Cursor' # Cursor => RoundaboutCalled
       /\ ((\E name \in Names : RebindStep(name)) /\ renewed' # <<>>) =>
             Cursor' = Cursor
       /\ \A x \in RoundParams :
             (DirectCall(x) /\ ~(IsPolicyResultSet(x) /\ x.items # <<>>)) =>
                 Cursor' = Cursor
       /\ \A x \in RoundParams :
             (DirectCall(x) /\ IsPolicyResultSet(x) /\ Cursor < Len(x.items)) =>
                 presult' = x.items[Cursor + 1]
       /\ (Stage = "select" /\ Stage' = "exec"
              /\ Cursor < Len(cache["P"].proxies)) =>
             thread'["R"].src = cache["P"].proxies[Cursor + 1]]_vars

\* the port was regenerated, and the policy was called on an empty set, with
\* the cursor in the middle of a rotation
C34_Witness ==
    /\ Cursor = 2
    /\ renewed # <<>>
    /\ param = PolicyResultSet(<<>>)
    /\ presult = NoneValue /\ praised = "none"
\* the policy of a stage for a method, as stated: the configured policy when
\* one policy is configured, the entry of the method when a dict is
\* configured, and none without entry or without configuration
Expected(configured, r_name) ==
    IF configured = NoPolicy THEN NoPolicy
    ELSE IF ~IsMapping(configured) THEN configured
    ELSE IF configured.map[r_name] # NoPolicy THEN configured.map[r_name]
    ELSE NoPolicy
\* what a policy answers when it is called with x
Answers(pol, x) == {o.val : o \in {a \in apply_policy(pol, x) : a.raised = "none"}}

Errors(pol, x) == {o.raised : o \in {a \in apply_policy(pol, x) : a.raised # "none"}}
Fails(pol, x) == pol # NoPolicy /\ Answers(pol, x) = {}
\* what raises in the step the call is about to take, if something does
Raising ==
    LET th == thread["R"]
        proxies == PolicyResultSet(cache["P"].proxies)
    IN CASE Stage = "select" /\ Fails(selectpolicy["P"], proxies) ->
                Errors(selectpolicy["P"], proxies)
         [] Stage = "exec" /\ Fails(execpolicy["P"], th.src) ->
                Errors(execpolicy["P"], th.src)
         [] Stage = "exec" /\ execpolicy["P"] = NoPolicy /\ th.todo # <<>>
               /\ Refuses(Head(th.todo).res, asked.args) -> {"ValueError"}
         [] Stage = "result" /\ Fails(resultpolicy["P"], th.result) ->
                Errors(resultpolicy["P"], th.result)
         [] OTHER -> {}

\* C31: when a selection, execution or result policy, or the routine of a
\* backend, raises during a call through the non-multiple proxy, the call ends
\* there with that error: no later stage runs, the backend that raised is
\* invoked once and no other backend after it, and the bindings and the
\* cached proxy of the port stay as they are.
C31_ErrorsEndTheCall ==
    [][(Stage # "idle" /\ Raising # {}) =>
          /\ raised' \in Raising
          /\ Stage' = "idle"
          /\ ret' = NoRet
          /\ invoked' = [i \in 1..Len(invoked') |->
                            [res |-> thread["R"].src.items[i].res, args |-> asked.args]]
          /\ Len(invoked') =
                IF Stage = "exec" /\ execpolicy["P"] = NoPolicy
                THEN Len(invoked) + 1 ELSE Len(invoked)
          /\ UNCHANGED <<children, cache, bound_on, selectpolicy, execpolicy,
                         resultpolicy>>]_vars

\* the call has ended with the error of the first backend and the second
\* candidate was not run
C31_Witness ==
    /\ Stage = "idle"
    /\ raised = "ValueError"
    /\ Len(cache["P"].proxies) = 2
    /\ invoked = <<[res |-> "Y", args |-> "w"]>>
\* the object the caller keeps
Held == heap[asked.id].val

\* C36: a regeneration modifies no proxy that was built before: a proxy it
\* installs is a newly built object, a ProxySet obtained earlier keeps its
\* elements, their order and their names, and an aggregated proxy obtained
\* earlier dispatches to the candidates captured when it was built, whatever
\* was bound, unbound or re-flagged since.
C36_ObtainedProxiesAreKept ==
    [][/\ \A i \in 1..Len(heap) : i <= Len(heap') /\ heap'[i] = heap[i]
       /\ (renewed' # <<>> /\ raised' = "none" /\ cache'["P"] # NoneProxy) =>
             /\ Len(heap') > Len(heap)
             /\ cache'["P"] = heap'[Len(heap')].val
       /\ \A np \in {NewProxy(i, k) : i \in 1..MaxKept + 1, k \in 1..Cardinality(Names)} :
             LookupHeld(np) =>
                 /\ raised' = "none"
                 /\ ret' = StrValue(Held.elems[np.idx].name)
       /\ CallHeld =>
             /\ raised' = "none"
             /\ invoked' = [k \in 1..Len(Held.proxies) |-> Held.proxies[k].res]]_vars

\* the caller has called an aggregated proxy it obtained before the port was
\* bound again: the call ran the candidate captured then
C36_Witness ==
    /\ asked # NoRet
    /\ Held.kind = "Proxy"
    /\ cache["P"] # Held
    /\ cache["P"].kind = "Proxy"
    /\ renewed = <<>>
    /\ invoked # <<>>
    /\ invoked = [k \in 1..Len(Held.proxies) |-> Held.proxies[k].res]
====
